---- MODULE Spec2Model ----
(***************************************************************************)
(* ColdVault: the backup run lifecycle (worker, cancel endpoint, orphan    *)
(* sweep, scheduler fire) and the incremental backup engine, as state      *)
(* machines translated from the Python sources under src/app.              *)
(***************************************************************************)
EXTENDS Integers, Sequences, FiniteSets, TLC

(***************************************************************************)
(* Bounds of the model.                                                    *)
(***************************************************************************)
MaxRuns == 2
MaxVersion == 2
MaxEngineRuns == 3
KeepLastN == 2
MaxUploadFailures == 1
MaxPartialFailed == 10

\* One job, and two pool threads that can be inside execute_backup at once (the
\* scheduler's thread and a background task's thread, or two background tasks).
Jobs == {1}
RunIds == 1..MaxRuns
Threads == {1, 2}

(***************************************************************************)
(* app/database.py: BackupStatus, plus NONE for a row that does not exist. *)
(***************************************************************************)
BackupStatus == {"PENDING", "RUNNING", "SUCCESS", "FAILED", "CANCELLED"}
Terminal == {"SUCCESS", "FAILED", "CANCELLED"}

MsgInterrupted == "Backup was interrupted (server restart or crash)"
MsgCancelledByUser == "Backup cancelled by user"
MsgCancelledOrphan == "Backup was cancelled (not actually running - likely server restart)"
MsgEngineError == "engine error"

VARIABLES
    phase,              \* "boot" | "constructed" | "serving": where the process is
    status,             \* BackupRun.status per run id ("NONE": no such row)
    run_job,            \* BackupRun.job_id per run id (0: no such row)
    error_message,      \* BackupRun.error_message per run id
    last_run_status,    \* Job.last_run_status per job
    snapshot_rows,      \* number of Snapshot rows per backup_run_id
    running_backups,    \* BackupWorker.running_backups: job -> run id (0: no entry)
    cancellation_flags, \* BackupWorker.cancellation_flags: run id -> "absent"|"false"|"true"
    tasks,              \* background tasks queued by trigger_backup: <<job, run>>
    t_pc, t_job, t_run,         \* each execute_backup call: position and locals
    sched_threads,              \* threads running an instance of a scheduler job
    c_pc, c_run, c_job, c_resp, \* the cancel endpoint's handler
    observed,           \* history: runs of this process whose engine saw its flag set
    sweeps,             \* history: how many times the orphan sweep transitioned each run
    last_sweep          \* history: the runs the latest sweep of this boot transitioned

lifeVars == <<phase, status, run_job, error_message, last_run_status, snapshot_rows,
              running_backups, cancellation_flags, tasks,
              t_pc, t_job, t_run, sched_threads,
              c_pc, c_run, c_job, c_resp, observed, sweeps, last_sweep>>

VARIABLES
    encryption_enabled,     \* Job.encryption_enabled
    fs,                     \* the source tree: content version of each path (0: no file)
    objects,                \* the bucket: the object stored at each file key
    manifest_obj,           \* the bucket: the object stored at the manifest key
    snapshots,              \* the job's Snapshot rows, oldest first
    e_pc,                   \* where the run is: "idle"|"upload"|"retry"|"finish"|"returned"
    previous_files,         \* backup(): the manifest entries loaded for comparison
    all_files_to_backup,    \* backup(): rel paths found new or changed by the scan
    total_files_unchanged,  \* backup(): files the scan found unchanged
    total_file_count,       \* backup(): files the scan counted
    last_task,              \* backup(): rel path of the last entry of upload_tasks
    uploaded_files,         \* backup(): rel_path -> s3 key ("": not uploaded)
    upload_errors,          \* backup(): rel paths with an entry in upload_errors
    failed_retryable,       \* backup(): rel paths queued for the retry pass
    result,                 \* what backup() returned or raised
    run_status,             \* BackupRun.status of the current (or last) run
    run_message,            \* BackupRun.error_message of that run
    e_runs,                 \* number of runs started
    changed,                \* history: paths written since the last SUCCESS run
    had_success,            \* history: some run ended SUCCESS
    run_nochange,           \* history: this run started on the tree of the last SUCCESS run
    run_puts,               \* history: file keys this run wrote to
    run_manifest_put        \* history: this run wrote the manifest object

engVars == <<encryption_enabled, fs, objects, manifest_obj, snapshots, e_pc, previous_files,
             all_files_to_backup, total_files_unchanged, total_file_count, last_task,
             uploaded_files, upload_errors, failed_retryable, result, run_status,
             run_message, e_runs, changed, had_success, run_nochange, run_puts,
             run_manifest_put>>

VARIABLES
    p_pc,           \* "start" | "returned" | "done"
    p_to_upload,    \* files the scan found new or changed
    p_unchanged,    \* files the scan found unchanged
    p_failed,       \* uploads that fail with a permanent error
    p_result,       \* what backup() returned or raised
    p_status,       \* BackupRun.status
    p_message       \* BackupRun.error_message

partVars == <<p_pc, p_to_upload, p_unchanged, p_failed, p_result, p_status, p_message>>

VARIABLES
    s_pc,           \* "start" | "returned"
    s_files,        \* signature of the file at <<source path, rel path>> (0: no file)
    s_prev,         \* signature the previous manifest records per rel path (0: none)
    s_result        \* what backup() returned

scanVars == <<s_pc, s_files, s_prev, s_result>>

VARIABLES
    job,            \* the Job row reconcile and the worker read
    s3_objects,     \* keys of the objects in the bucket other than the manifest
    s3_manifest,    \* the object at the job's manifest key
    job_snapshots,  \* the job's Snapshot rows, oldest first
    sync_result,    \* what the last sync_job returned
    last_op         \* the last operation and what it wrote

syncVars == <<job, s3_objects, s3_manifest, job_snapshots, sync_result, last_op>>

VARIABLES
    retry_cfg,      \* the arguments of the retry primitive
    retry           \* the state of its loop

retryVars == <<retry_cfg, retry>>

VARIABLES
    job_rows,       \* the jobs table: the name of the row with each id ("" for no row)
    api_req         \* the request each API thread is handling

jobsVars == <<job_rows, api_req>>

VARIABLES
    restore_in,     \* the Snapshot row a restore is asked for
    restore_out,    \* what the last call of restore_snapshot did
    restore_status, \* the bucket: the rehydration of the snapshot's object
    restore_calls   \* number of calls of restore_snapshot so far

restoreVars == <<restore_in, restore_out, restore_status, restore_calls>>

VARIABLES
    pool_flag,      \* cancellation_flags[backup_run_id]
    pool_pc,        \* backup(): "wave" | "unwind" | "retry" | "cancelled" | "done"
    pool_task,      \* the executor: each file's upload, "queued" | "running" | its outcome
    pool_seen,      \* files whose outcome the as_completed loop has recorded
    pool_retry,     \* the retry pass: files left, the file being retried, its attempt
    pool_late       \* history: files whose upload was started while the flag was set

poolVars == <<pool_flag, pool_pc, pool_task, pool_seen, pool_retry, pool_late>>

VARIABLES
    cls_err,        \* the error every attempt of an upload raises
    cls_out         \* what the classifier, the client and the main wave made of it

classVars == <<cls_err, cls_out>>

VARIABLES
    multipart_uploads,  \* S3Client.multipart_uploads: the upload id tracked per key ("": none)
    in_flight,          \* the bucket: the multipart upload left open per key
    up_call             \* upload_file_with_retry: its key, position and RetryContext.attempt

mpVars == <<multipart_uploads, in_flight, up_call>>

VARIABLES
    sch_rows,       \* the jobs table: exists, enabled and schedule of the row with each id
    job_mapping,    \* JobScheduler.job_mapping: the job ids it holds a scheduler id for
    aps_jobs,       \* the BackgroundScheduler's job store: registrations <<id, trigger>>
    sch_req,        \* the request each API thread is handling, and the Job object it holds
    sch_fired       \* history: what _run_backup found and did each time a trigger fired

schedVars == <<sch_rows, job_mapping, aps_jobs, sch_req, sch_fired>>

\* For each specification, the variables of the other specifications of this module.
nonLifeVars == <<restoreVars, jobsVars, engVars, partVars, scanVars, syncVars, retryVars,
                  poolVars, classVars, mpVars, schedVars>>
nonEngVars == <<restoreVars, jobsVars, lifeVars, partVars, scanVars, syncVars, retryVars,
                 poolVars, classVars, mpVars, schedVars>>
nonPartVars == <<restoreVars, jobsVars, lifeVars, engVars, scanVars, syncVars, retryVars,
                  poolVars, classVars, mpVars, schedVars>>
nonScanVars == <<restoreVars, jobsVars, lifeVars, engVars, partVars, syncVars, retryVars,
                  poolVars, classVars, mpVars, schedVars>>
nonSyncVars == <<restoreVars, jobsVars, lifeVars, engVars, partVars, scanVars, retryVars,
                  poolVars, classVars, mpVars, schedVars>>
nonRetryVars == <<restoreVars, jobsVars, lifeVars, engVars, partVars, scanVars, syncVars,
                   poolVars, classVars, mpVars, schedVars>>
nonJobsVars == <<restoreVars, lifeVars, engVars, partVars, scanVars, syncVars, retryVars,
                  poolVars, classVars, mpVars, schedVars>>
nonRestoreVars == <<lifeVars, engVars, partVars, scanVars, syncVars, retryVars, jobsVars,
                     poolVars, classVars, mpVars, schedVars>>
nonPoolVars == <<restoreVars, jobsVars, lifeVars, engVars, partVars, scanVars, syncVars, retryVars,
                  classVars, mpVars, schedVars>>
nonClassVars == <<restoreVars, jobsVars, lifeVars, engVars, partVars, scanVars, syncVars, retryVars,
                   poolVars, mpVars, schedVars>>
nonMpVars == <<restoreVars, jobsVars, lifeVars, engVars, partVars, scanVars, syncVars,
    retryVars, poolVars, classVars, schedVars>>
nonSchedVars == <<restoreVars, jobsVars, lifeVars, engVars, partVars, scanVars, syncVars,
    retryVars, poolVars, classVars, mpVars>>

vars == <<lifeVars, nonLifeVars>>

dbVars == <<status, run_job, error_message, last_run_status, snapshot_rows>>
threadVars == <<t_pc, t_job, t_run>>
cancelVars == <<c_pc, c_run, c_job, c_resp>>
histVars == <<observed, sweeps, last_sweep>>

(***************************************************************************)
(* Helpers over the metadata store.                                        *)
(***************************************************************************)
RowCount == Cardinality({r \in RunIds : status[r] # "NONE"})
NextId == RowCount + 1

LifeInit ==
    /\ phase = "boot"
    /\ status = [r \in RunIds |-> "NONE"]
    /\ run_job = [r \in RunIds |-> 0]
    /\ error_message = [r \in RunIds |-> ""]
    /\ last_run_status = [j \in Jobs |-> "NONE"]
    /\ snapshot_rows = [r \in RunIds |-> 0]
    /\ running_backups = [j \in Jobs |-> 0]
    /\ cancellation_flags = [r \in RunIds |-> "absent"]
    /\ tasks = {}
    /\ t_pc = [t \in Threads |-> "idle"]
    /\ t_job = [t \in Threads |-> 0]
    /\ t_run = [t \in Threads |-> 0]
    /\ sched_threads = {}
    /\ c_pc = "idle"
    /\ c_run = 0
    /\ c_job = 0
    /\ c_resp = 0
    /\ observed = {}
    /\ sweeps = [r \in RunIds |-> 0]
    /\ last_sweep = {}

(***************************************************************************)
(* BackupWorker._recover_orphaned_backups (worker.py 28-63): every row in  *)
(* RUNNING becomes FAILED, and its job's last_run_status FAILED, in one    *)
(* commit.                                                                 *)
(***************************************************************************)
OrphanedRuns == {r \in RunIds : status[r] = "RUNNING"}

\* The sweep as it would be if it left the job's denormalised status alone.
RecoverOrphanedBackupsNoJob ==
    /\ status' = [r \in RunIds |-> IF r \in OrphanedRuns THEN "FAILED" ELSE status[r]]
    /\ error_message' = [r \in RunIds |->
            IF r \in OrphanedRuns THEN MsgInterrupted ELSE error_message[r]]
    /\ sweeps' = [r \in RunIds |-> IF r \in OrphanedRuns THEN sweeps[r] + 1 ELSE sweeps[r]]
    /\ last_sweep' = OrphanedRuns
    /\ UNCHANGED <<run_job, snapshot_rows, last_run_status>>

RecoverOrphanedBackups ==
    /\ status' = [r \in RunIds |-> IF r \in OrphanedRuns THEN "FAILED" ELSE status[r]]
    /\ error_message' = [r \in RunIds |->
            IF r \in OrphanedRuns THEN MsgInterrupted ELSE error_message[r]]
    /\ last_run_status' = [j \in Jobs |->
            IF \E r \in OrphanedRuns : run_job[r] = j THEN "FAILED" ELSE last_run_status[j]]
    /\ sweeps' = [r \in RunIds |-> IF r \in OrphanedRuns THEN sweeps[r] + 1 ELSE sweeps[r]]
    /\ last_sweep' = OrphanedRuns
    /\ UNCHANGED <<run_job, snapshot_rows>>

\* worker.py 20-26 and 334: the module-level BackupWorker() is constructed on import.
ConstructWorker ==
    /\ phase = "boot"
    /\ RecoverOrphanedBackups
    /\ phase' = "constructed"
    /\ UNCHANGED <<running_backups, cancellation_flags, tasks, threadVars, cancelVars,
                   observed>>
    /\ UNCHANGED sched_threads
    /\ UNCHANGED nonLifeVars

\* main.py 72-78: startup_event sweeps again, then starts the scheduler and serving.
StartupEvent ==
    /\ phase = "constructed"
    /\ RecoverOrphanedBackups
    /\ phase' = "serving"
    /\ UNCHANGED <<running_backups, cancellation_flags, tasks, threadVars, cancelVars,
                   observed>>
    /\ UNCHANGED sched_threads
    /\ UNCHANGED nonLifeVars

\* The process dies: everything in memory is lost, the metadata store stays.
ProcessDies ==
    /\ phase = "serving"
    /\ phase' = "boot"
    /\ running_backups' = [j \in Jobs |-> 0]
    /\ cancellation_flags' = [r \in RunIds |-> "absent"]
    /\ tasks' = {}
    /\ t_pc' = [t \in Threads |-> "idle"]
    /\ t_job' = [t \in Threads |-> 0]
    /\ t_run' = [t \in Threads |-> 0]
    /\ c_pc' = "idle"
    /\ c_run' = 0
    /\ c_job' = 0
    /\ c_resp' = 0
    /\ observed' = {}
    /\ last_sweep' = {}
    /\ UNCHANGED <<dbVars, sweeps>>
    /\ sched_threads' = {}
    /\ UNCHANGED nonLifeVars

(***************************************************************************)
(* api/backups.py 34-58: trigger_backup creates a PENDING row and queues   *)
(* execute_backup(job_id, backup_run.id) as a background task.             *)
(***************************************************************************)
TriggerBackup(j) ==
    /\ phase = "serving"
    /\ RowCount < MaxRuns
    /\ status' = [status EXCEPT ![NextId] = "PENDING"]
    /\ run_job' = [run_job EXCEPT ![NextId] = j]
    /\ tasks' = tasks \cup {<<j, NextId>>}
    /\ UNCHANGED <<phase, error_message, last_run_status, snapshot_rows, running_backups,
                   cancellation_flags, threadVars, cancelVars, histVars>>
    /\ UNCHANGED sched_threads
    /\ UNCHANGED nonLifeVars

(***************************************************************************)
(* BackupWorker.execute_backup (worker.py 65-285), one action per stretch  *)
(* of code between two points where another thread's step can matter.      *)
(***************************************************************************)
\* worker.py 74-77: the job is in running_backups.
AlreadyRunning(j) == running_backups[j] # 0

\* worker.py 69-91: return when the job is already running; else create the PENDING
\* row (no run id passed: r = 0) or load the row that trigger_backup created.
ExecEnter(t, j, r) ==
    /\ t_pc[t] = "idle"
    /\ \A u \in Threads : u < t => t_pc[u] # "idle"   \* pool threads are interchangeable
    /\ IF AlreadyRunning(j)
       THEN UNCHANGED <<threadVars, status, run_job>>
       ELSE /\ t_pc' = [t_pc EXCEPT ![t] = "register"]
            /\ t_job' = [t_job EXCEPT ![t] = j]
            /\ IF r = 0
               THEN /\ status' = [status EXCEPT ![NextId] = "PENDING"]
                    /\ run_job' = [run_job EXCEPT ![NextId] = j]
                    /\ t_run' = [t_run EXCEPT ![t] = NextId]
               ELSE /\ t_run' = [t_run EXCEPT ![t] = r]
                    /\ UNCHANGED <<status, run_job>>

\* A background task queued by trigger_backup starts on a pool thread.
StartManual(t) ==
    /\ phase = "serving"
    /\ \E task \in tasks :
          /\ ExecEnter(t, task[1], task[2])
          /\ tasks' = tasks \ {task}
    /\ UNCHANGED <<phase, error_message, last_run_status, snapshot_rows, running_backups,
                   cancellation_flags, cancelVars, histVars>>
    /\ UNCHANGED sched_threads
    /\ UNCHANGED nonLifeVars

\* scheduler.py 136-150: JobScheduler._run_backup calls execute_backup(job_id, None).
RunBackup(t, j) ==
    /\ phase = "serving"
    /\ RowCount < MaxRuns
    /\ \A u \in sched_threads : t_job[u] # j      \* one instance per scheduler job
    /\ ExecEnter(t, j, 0)
    /\ UNCHANGED <<phase, error_message, last_run_status, snapshot_rows, running_backups,
                   cancellation_flags, tasks, cancelVars, histVars>>
    /\ sched_threads' = IF AlreadyRunning(j) THEN sched_threads ELSE sched_threads \cup {t}
    /\ UNCHANGED nonLifeVars

\* worker.py 93-94: enter the running set and initialise the cancellation flag.
ExecRegister(t) ==
    /\ t_pc[t] = "register"
    /\ running_backups' = [running_backups EXCEPT ![t_job[t]] = t_run[t]]
    /\ cancellation_flags' = [cancellation_flags EXCEPT ![t_run[t]] = "false"]
    /\ t_pc' = [t_pc EXCEPT ![t] = "mark"]
    /\ UNCHANGED <<phase, dbVars, tasks, t_job, t_run, cancelVars, histVars>>
    /\ UNCHANGED sched_threads
    /\ UNCHANGED nonLifeVars

\* worker.py 97-107: the row becomes RUNNING, whatever it was, and is committed.
ExecMarkRunning(t) ==
    /\ t_pc[t] = "mark"
    /\ status' = [status EXCEPT ![t_run[t]] = "RUNNING"]
    /\ last_run_status' = [last_run_status EXCEPT ![t_job[t]] = "RUNNING"]
    /\ t_pc' = [t_pc EXCEPT ![t] = "precheck"]
    /\ UNCHANGED <<phase, run_job, error_message, snapshot_rows, running_backups,
                   cancellation_flags, tasks, t_job, t_run, cancelVars, histVars>>
    /\ UNCHANGED sched_threads
    /\ UNCHANGED nonLifeVars

\* cancellation_flags.get(backup_run_id, False)
FlagSet(r) == cancellation_flags[r] = "true"

\* worker.py 117-120: the check before the engine starts raises InterruptedError.
ExecPreCheck(t) ==
    /\ t_pc[t] = "precheck"
    /\ IF FlagSet(t_run[t])
       THEN /\ t_pc' = [t_pc EXCEPT ![t] = "interrupted"]
            /\ observed' = observed \cup {t_run[t]}
       ELSE /\ t_pc' = [t_pc EXCEPT ![t] = "engine"]
            /\ UNCHANGED observed
    /\ UNCHANGED <<phase, dbVars, running_backups, cancellation_flags, tasks,
                   t_job, t_run, cancelVars, sweeps, last_sweep>>
    /\ UNCHANGED sched_threads
    /\ UNCHANGED nonLifeVars

\* incremental_backup.py 238-242 (and 134-137): check_cancellation at a polling point
\* raises InterruptedError when the run's flag is set, and does nothing otherwise.
CheckCancellation(t) ==
    /\ t_pc[t] = "engine"
    /\ IF FlagSet(t_run[t])
       THEN /\ t_pc' = [t_pc EXCEPT ![t] = "interrupted"]
            /\ observed' = observed \cup {t_run[t]}
       ELSE UNCHANGED <<t_pc, observed>>
    /\ UNCHANGED <<phase, dbVars, running_backups, cancellation_flags, tasks,
                   t_job, t_run, cancelVars, sweeps, last_sweep>>
    /\ UNCHANGED sched_threads
    /\ UNCHANGED nonLifeVars

\* worker.py 164-223: the engine returned a result: SUCCESS, the Snapshot row and the
\* job's status, in one commit.
ExecSuccess(t) ==
    /\ t_pc[t] = "engine"
    /\ status' = [status EXCEPT ![t_run[t]] = "SUCCESS"]
    /\ snapshot_rows' = [snapshot_rows EXCEPT ![t_run[t]] = snapshot_rows[t_run[t]] + 1]
    /\ last_run_status' = [last_run_status EXCEPT ![t_job[t]] = "SUCCESS"]
    /\ t_pc' = [t_pc EXCEPT ![t] = "finally"]
    /\ UNCHANGED <<phase, run_job, error_message, running_backups, cancellation_flags,
                   tasks, t_job, t_run, cancelVars, histVars>>
    /\ UNCHANGED sched_threads
    /\ UNCHANGED nonLifeVars

\* The handler as it would be if InterruptedError fell through to "except Exception".
ExecCancelledAsFailed(t) ==
    /\ t_pc[t] = "interrupted"
    /\ status' = [status EXCEPT ![t_run[t]] = "FAILED"]
    /\ error_message' = [error_message EXCEPT ![t_run[t]] = MsgCancelledByUser]
    /\ last_run_status' = [last_run_status EXCEPT ![t_job[t]] = "FAILED"]
    /\ t_pc' = [t_pc EXCEPT ![t] = "finally"]
    /\ UNCHANGED <<phase, run_job, snapshot_rows, running_backups, cancellation_flags,
                   tasks, t_job, t_run, cancelVars, histVars>>
    /\ UNCHANGED sched_threads
    /\ UNCHANGED nonLifeVars

\* worker.py 230-247: InterruptedError ends the run CANCELLED.
ExecCancelled(t) ==
    /\ t_pc[t] = "interrupted"
    /\ status' = [status EXCEPT ![t_run[t]] = "CANCELLED"]
    /\ error_message' = [error_message EXCEPT ![t_run[t]] = MsgCancelledByUser]
    /\ last_run_status' = [last_run_status EXCEPT ![t_job[t]] = "CANCELLED"]
    /\ t_pc' = [t_pc EXCEPT ![t] = "finally"]
    /\ UNCHANGED <<phase, run_job, snapshot_rows, running_backups, cancellation_flags,
                   tasks, t_job, t_run, cancelVars, histVars>>
    /\ UNCHANGED sched_threads
    /\ UNCHANGED nonLifeVars

\* worker.py 249-268: the engine raised any other exception: the run ends FAILED.
ExecFailed(t) ==
    /\ t_pc[t] = "engine"
    /\ status' = [status EXCEPT ![t_run[t]] = "FAILED"]
    /\ error_message' = [error_message EXCEPT ![t_run[t]] = MsgEngineError]
    /\ last_run_status' = [last_run_status EXCEPT ![t_job[t]] = "FAILED"]
    /\ t_pc' = [t_pc EXCEPT ![t] = "finally"]
    /\ UNCHANGED <<phase, run_job, snapshot_rows, running_backups, cancellation_flags,
                   tasks, t_job, t_run, cancelVars, histVars>>
    /\ UNCHANGED sched_threads
    /\ UNCHANGED nonLifeVars

\* worker.py 270-280: the job's entry and the run's flag are deleted.
ExecFinally(t) ==
    /\ t_pc[t] = "finally"
    /\ running_backups' = [running_backups EXCEPT ![t_job[t]] = 0]
    /\ cancellation_flags' = [cancellation_flags EXCEPT ![t_run[t]] = "absent"]
    /\ t_pc' = [t_pc EXCEPT ![t] = "idle"]
    /\ t_job' = [t_job EXCEPT ![t] = 0]
    /\ t_run' = [t_run EXCEPT ![t] = 0]
    /\ UNCHANGED <<phase, dbVars, tasks, cancelVars, histVars>>
    /\ sched_threads' = sched_threads \ {t}
    /\ UNCHANGED nonLifeVars

\* worker.py 282-285: an exception raised outside the inner try statement reaches the
\* outer handler, which logs it and closes the session: the run setup of 96-98 or its
\* commit of 107 ("mark"), the log lines of 109-113 ("precheck"), or the commit of
\* 274 at the head of the finally block.
ExecOuterExcept(t) ==
    /\ t_pc[t] \in {"mark", "precheck", "finally"}
    /\ t_pc' = [t_pc EXCEPT ![t] = "idle"]
    /\ t_job' = [t_job EXCEPT ![t] = 0]
    /\ t_run' = [t_run EXCEPT ![t] = 0]
    /\ UNCHANGED <<phase, dbVars, running_backups, cancellation_flags, tasks, cancelVars,
                   histVars>>
    /\ sched_threads' = sched_threads \ {t}
    /\ UNCHANGED nonLifeVars

(***************************************************************************)
(* api/backups.py 92-141: the cancel endpoint, and worker.py 287-300.      *)
(* c_resp is the status code of the last answer.                           *)
(***************************************************************************)
\* backups.py 95-103: load the row; 404 when absent, 400 when it is terminal.
CancelRead(r) ==
    /\ phase = "serving"
    /\ c_pc = "idle"
    /\ IF status[r] = "NONE"
       THEN c_resp' = 404 /\ c_pc' = "idle" /\ c_run' = 0 /\ c_job' = 0
       ELSE IF status[r] \notin {"PENDING", "RUNNING"}
       THEN c_resp' = 400 /\ c_pc' = "idle" /\ c_run' = 0 /\ c_job' = 0
       ELSE c_resp' = 0 /\ c_pc' = "check" /\ c_run' = r /\ c_job' = run_job[r]
    /\ UNCHANGED <<phase, dbVars, running_backups, cancellation_flags, tasks, threadVars,
                   histVars>>
    /\ UNCHANGED sched_threads
    /\ UNCHANGED nonLifeVars

\* backups.py 106: the run counts as orphaned when its JOB has no entry in running_backups.
CancelCheck ==
    /\ c_pc = "check"
    /\ c_pc' = IF running_backups[c_job] = 0 THEN "orphan" ELSE "request"
    /\ UNCHANGED <<phase, dbVars, running_backups, cancellation_flags, tasks, threadVars,
                   c_run, c_job, c_resp, histVars>>
    /\ UNCHANGED sched_threads
    /\ UNCHANGED nonLifeVars

\* backups.py 109-126: the row is written CANCELLED and committed; 200.
CancelOrphan ==
    /\ c_pc = "orphan"
    /\ status' = [status EXCEPT ![c_run] = "CANCELLED"]
    /\ error_message' = [error_message EXCEPT ![c_run] = MsgCancelledOrphan]
    /\ last_run_status' = [last_run_status EXCEPT ![c_job] = "CANCELLED"]
    /\ c_resp' = 200
    /\ c_pc' = "idle"
    /\ c_run' = 0
    /\ c_job' = 0
    /\ UNCHANGED <<phase, run_job, snapshot_rows, running_backups, cancellation_flags,
                   tasks, threadVars, histVars>>
    /\ UNCHANGED sched_threads
    /\ UNCHANGED nonLifeVars

\* worker.py 287-300: BackupWorker.cancel_backup(job_id) flags the job's running run.
WorkerCancelBackup(j) ==
    IF running_backups[j] = 0
    THEN cancellation_flags
    ELSE [cancellation_flags EXCEPT ![running_backups[j]] = "true"]

\* backups.py 128-141: 200 when the worker took the request, 400 when it did not.
CancelRequest ==
    /\ c_pc = "request"
    /\ cancellation_flags' = WorkerCancelBackup(c_job)
    /\ c_resp' = IF running_backups[c_job] = 0 THEN 400 ELSE 200
    /\ c_pc' = "idle"
    /\ c_run' = 0
    /\ c_job' = 0
    /\ UNCHANGED <<phase, dbVars, running_backups, tasks, threadVars, histVars>>
    /\ UNCHANGED sched_threads
    /\ UNCHANGED nonLifeVars

Next ==
    \/ ConstructWorker
    \/ StartupEvent
    \/ ProcessDies
    \/ \E j \in Jobs : TriggerBackup(j)
    \/ \E t \in Threads : StartManual(t)
    \/ \E t \in Threads, j \in Jobs : RunBackup(t, j)
    \/ \E t \in Threads : ExecRegister(t)
    \/ \E t \in Threads : ExecMarkRunning(t)
    \/ \E t \in Threads : ExecPreCheck(t)
    \/ \E t \in Threads : CheckCancellation(t)
    \/ \E t \in Threads : ExecSuccess(t)
    \/ \E t \in Threads : ExecCancelled(t)
    \/ \E t \in Threads : ExecFailed(t)
    \/ \E t \in Threads : ExecFinally(t)
    \/ \E t \in Threads : ExecOuterExcept(t)
    \/ \E r \in RunIds : CancelRead(r)
    \/ CancelCheck
    \/ CancelOrphan
    \/ CancelRequest

(***************************************************************************)
(* The incremental engine (app/engines/incremental_backup.py) and what the *)
(* worker does with its result (app/worker.py 136-228, 249-268), for one   *)
(* job whose runs follow one another.                                      *)
(***************************************************************************)
Paths == {"a", "b", "c/d"}
SizeOf == [p \in Paths |-> CASE p = "a" -> 100 [] p = "b" -> 200 [] OTHER -> 300]
Rewritable == {"b"}     \* the paths whose file is rewritten after it was created

\* os.stat(...).st_size of the file at path p holding content version v.
FileSize(p, v) == IF v = 0 THEN 0 ELSE SizeOf[p] + 50 * (v - 1)

\* incremental_backup.py 346-348 and 490, 513: the keys the engine writes to.
DirKey == "prefix/name/"
S3Key(rel_path) == DirKey \o rel_path
ManifestKey == "prefix/name.manifest.json"
Keys == {S3Key(p) : p \in Paths}

\* encryption.py 18-34: the length of the Fernet token written for n bytes of
\* plaintext (version, timestamp, IV, padded AES-CBC blocks, HMAC; base64).
EncSize(n) == 4 * ((57 + 16 * (n \div 16 + 1) + 2) \div 3)

\* incremental_backup.py 209-219: the bytes stored for the file at path p.
StoredSize(p, v) == IF encryption_enabled THEN EncSize(FileSize(p, v)) ELSE FileSize(p, v)

NoObject == [src |-> "", ver |-> 0, size |-> 0]
NoEntry == [size |-> 0, ver |-> 0, s3_key |-> ""]
NoFiles == [p \in Paths |-> NoEntry]
NoResult == [raised |-> FALSE, error |-> "", files_count |-> 0, size_bytes |-> 0,
             s3_key |-> "", manifest_key |-> "", files_unchanged |-> 0,
             total_files_scanned |-> 0, upload_errors |-> 0]

\* incremental_backup.py 238-242: what check_cancellation raises when the flag is set.
Interrupted == [NoResult EXCEPT !.raised = TRUE, !.error = MsgCancelledByUser]

EngineInit ==
    /\ encryption_enabled \in BOOLEAN
    /\ fs = [p \in Paths |-> 0]
    /\ objects = [k \in Keys |-> NoObject]
    /\ manifest_obj = [present |-> FALSE, encrypted |-> FALSE, files |-> NoFiles]
    /\ snapshots = <<>>
    /\ e_pc = "idle"
    /\ previous_files = NoFiles
    /\ all_files_to_backup = {}
    /\ total_files_unchanged = 0
    /\ total_file_count = 0
    /\ last_task = ""
    /\ uploaded_files = [p \in Paths |-> ""]
    /\ upload_errors = {}
    /\ failed_retryable = {}
    /\ result = NoResult
    /\ run_status = "NONE"
    /\ run_message = ""
    /\ e_runs = 0
    /\ changed = {}
    /\ had_success = FALSE
    /\ run_nochange = FALSE
    /\ run_puts = {}
    /\ run_manifest_put = FALSE

\* incremental_backup.py 72-75: the manifest key derived from a snapshot's s3_key.
DeriveManifestKey(s3_key) ==
    CASE s3_key = "prefix/name.tar.gz" -> "prefix/name.manifest.json"
      [] s3_key = "prefix/name.tar.gz.encrypted" -> "prefix/name.manifest.json"
      [] OTHER -> s3_key

RetainedIdx == {i \in 1..Len(snapshots) : snapshots[i].retained}
LastRetained == CHOOSE i \in RetainedIdx : \A k \in RetainedIdx : k <= i

\* incremental_backup.py 59-94: load_previous_manifest.
LoadPreviousManifest ==
    IF RetainedIdx = {} THEN NoFiles
    ELSE LET last_snapshot == snapshots[LastRetained]
             manifest_key == IF last_snapshot.manifest_key # ""
                             THEN last_snapshot.manifest_key
                             ELSE IF last_snapshot.s3_key # ""
                                  THEN DeriveManifestKey(last_snapshot.s3_key)
                                  ELSE ""
         IN  IF manifest_key = "" THEN NoFiles
             ELSE IF manifest_key # ManifestKey \/ ~manifest_obj.present
                  THEN NoFiles                 \* download_file raises
             ELSE IF manifest_obj.encrypted
                  THEN NoFiles                 \* json.load raises on the Fernet token
             ELSE manifest_obj.files

\* incremental_backup.py 96-123: scan_file's needs_backup.
NeedsBackup(p, prev) ==
    ~(prev[p] # NoEntry /\ prev[p].size = FileSize(p, fs[p]) /\ prev[p].ver = fs[p])

Present == {p \in Paths : fs[p] # 0}

RECURSIVE SumSizes(_)
SumSizes(S) ==
    IF S = {} THEN 0
    ELSE LET p == CHOOSE x \in S : TRUE IN FileSize(p, fs[p]) + SumSizes(S \ {p})

runLocals == <<previous_files, all_files_to_backup, total_files_unchanged, total_file_count,
               last_task, uploaded_files, upload_errors, failed_retryable>>
bucketVars == <<objects, manifest_obj>>
runRow == <<run_status, run_message>>
engHist == <<changed, had_success, run_nochange>>

\* The source tree between two runs: a file is created or rewritten.
FsWrite(p) ==
    /\ e_pc = "idle"
    /\ fs[p] < (IF p \in Rewritable THEN MaxVersion ELSE 1)
    /\ fs' = [fs EXCEPT ![p] = fs[p] + 1]
    /\ changed' = changed \cup {p}
    /\ UNCHANGED <<encryption_enabled, bucketVars, snapshots, e_pc, runLocals, result, runRow,
                   e_runs, had_success, run_nochange, run_puts, run_manifest_put>>
    /\ UNCHANGED nonEngVars

\* incremental_backup.py 244-308: load the previous manifest, scan, and return at
\* once when nothing is new or changed. The cancel endpoint may set the run's flag at
\* any moment (worker.py 297); a check of lines 273, 142 or 165 that finds it set raises.
EngineScan ==
    /\ e_pc = "idle"
    /\ e_runs < MaxEngineRuns
    /\ \E cancelled \in BOOLEAN :
         LET prev == LoadPreviousManifest
             todo == {p \in Present : NeedsBackup(p, prev)}
             unchanged == Cardinality(Present \ todo)
         IN  /\ previous_files' = prev
             /\ IF cancelled
                THEN /\ all_files_to_backup' = {}
                     /\ total_files_unchanged' = 0
                     /\ total_file_count' = 0
                     /\ result' = Interrupted
                     /\ e_pc' = "returned"
                ELSE /\ all_files_to_backup' = todo
                     /\ total_files_unchanged' = unchanged
                     /\ total_file_count' = Cardinality(Present)
                     /\ IF todo = {}
                        THEN /\ result' = [NoResult EXCEPT !.files_unchanged = unchanged]
                             /\ e_pc' = "returned"
                        ELSE /\ result' = NoResult
                             /\ e_pc' = "upload"
    /\ run_status' = "RUNNING"
    /\ run_message' = ""
    /\ e_runs' = e_runs + 1
    /\ run_nochange' = (had_success /\ changed = {})
    /\ run_puts' = {}
    /\ run_manifest_put' = FALSE
    /\ UNCHANGED <<encryption_enabled, fs, bucketVars, snapshots, last_task, uploaded_files,
                   upload_errors, failed_retryable, changed, had_success>>
    /\ UNCHANGED nonEngVars

\* incremental_backup.py 330-407: the first wave of uploads. Each upload succeeds, or
\* raises an error is_retryable_error accepts, or raises one it rejects. full_path
\* and s3_key keep the values of the last upload task, which the scan's completion
\* order decides; line 402 is the only later reader. Every task is submitted at
\* lines 357-368; when the check of line 371 raises, leaving the with block of line
\* 356 waits for the submitted uploads, so they are all carried out before the
\* InterruptedError reaches the worker.
UploadWave ==
    /\ e_pc = "upload"
    /\ \E failed \in SUBSET all_files_to_backup, again \in SUBSET all_files_to_backup,
          cancelled \in BOOLEAN :
          /\ Cardinality(failed) <= MaxUploadFailures
          /\ again \subseteq failed
          /\ IF again = {} THEN last_task' = "" ELSE last_task' \in all_files_to_backup
          /\ LET ok == all_files_to_backup \ failed
             IN
              /\ objects' = [k \in Keys |->
                     IF \E p \in ok : k = S3Key(p)
                     THEN LET p == CHOOSE q \in ok : k = S3Key(q)
                          IN  [src |-> p, ver |-> fs[p], size |-> StoredSize(p, fs[p])]
                     ELSE objects[k]]
              /\ uploaded_files' = [p \in Paths |-> IF p \in ok THEN S3Key(p) ELSE ""]
              /\ upload_errors' = all_files_to_backup \ ok
              /\ failed_retryable' = again
              /\ run_puts' = {S3Key(p) : p \in ok}
              /\ e_pc' = IF cancelled THEN "returned"
                         ELSE IF again # {} THEN "retry" ELSE "finish"
              /\ result' = IF cancelled THEN Interrupted ELSE result
    /\ UNCHANGED <<encryption_enabled, fs, manifest_obj, snapshots, previous_files,
                   all_files_to_backup, total_files_unchanged, total_file_count,
                   runRow, e_runs, engHist, run_manifest_put>>
    /\ UNCHANGED nonEngVars

\* incremental_backup.py 410-451: the retry pass. Line 402 queued every entry with the
\* full_path and s3_key left over from the loop of lines 330-350, so each retry
\* uploads the file of the last upload task to the key of the last upload task.
RetryPass ==
    /\ e_pc = "retry"
    /\ \E ok \in SUBSET failed_retryable, cancelled \in BOOLEAN :
          /\ e_pc' = IF cancelled THEN "returned" ELSE "finish"      \* line 416 raises
          /\ result' = IF cancelled THEN Interrupted ELSE result
          /\ objects' = IF ok = {} THEN objects
                        ELSE [objects EXCEPT ![S3Key(last_task)] =
                                 [src |-> last_task, ver |-> fs[last_task],
                                  size |-> StoredSize(last_task, fs[last_task])]]
          /\ uploaded_files' = [p \in Paths |->
                                   IF p \in ok THEN S3Key(last_task) ELSE uploaded_files[p]]
          /\ upload_errors' = upload_errors \ ok
          /\ run_puts' = IF ok = {} THEN run_puts ELSE run_puts \cup {S3Key(last_task)}
    /\ UNCHANGED <<encryption_enabled, fs, manifest_obj, snapshots, previous_files,
                   all_files_to_backup, total_files_unchanged, total_file_count, last_task,
                   failed_retryable, runRow, e_runs, engHist, run_manifest_put>>
    /\ UNCHANGED nonEngVars

MsgUnpack == "too many values to unpack (expected 2)"
MsgUploadFailed == "S3 upload failed"

\* incremental_backup.py 463-472: the previous entries, overwritten by this run's uploads.
CurrentManifest ==
    [p \in Paths |->
        IF p \in all_files_to_backup /\ uploaded_files[p] # ""
        THEN [size |-> FileSize(p, fs[p]), ver |-> fs[p], s3_key |-> uploaded_files[p]]
        ELSE previous_files[p]]

\* The manifest written before the errors are reported.
EngineFinishReportingLast ==
    /\ e_pc = "finish"
    /\ manifest_obj' = [present |-> TRUE, encrypted |-> encryption_enabled,
                        files |-> CurrentManifest]
    /\ run_manifest_put' = TRUE
    /\ result' = IF upload_errors # {}
                 THEN [NoResult EXCEPT !.raised = TRUE, !.error = MsgUnpack]
                 ELSE [NoResult EXCEPT !.s3_key = DirKey, !.manifest_key = ManifestKey]
    /\ e_pc' = "returned"
    /\ UNCHANGED <<encryption_enabled, fs, objects, snapshots, runLocals, runRow, e_runs,
                   engHist, run_puts>>
    /\ UNCHANGED nonEngVars

\* incremental_backup.py 456-519: report the errors, write the manifest, return. The
\* loop of line 458 unpacks the 3-tuples of upload_errors into two names and raises
\* ValueError whenever the list is not empty.
EngineFinish ==
    /\ e_pc = "finish"
    /\ IF upload_errors # {}
       THEN /\ result' = [NoResult EXCEPT !.raised = TRUE, !.error = MsgUnpack]
            /\ UNCHANGED <<manifest_obj, run_manifest_put>>
       ELSE \E put_ok \in BOOLEAN :
              IF put_ok
              THEN /\ manifest_obj' = [present |-> TRUE, encrypted |-> encryption_enabled,
                                       files |-> CurrentManifest]
                   /\ run_manifest_put' = TRUE
                   /\ result' = [raised |-> FALSE, error |-> "",
                                 files_count |-> Cardinality({p \in Paths : uploaded_files[p] # ""}),
                                 size_bytes |-> SumSizes(all_files_to_backup),
                                 s3_key |-> DirKey, manifest_key |-> ManifestKey,
                                 files_unchanged |-> total_files_unchanged,
                                 total_files_scanned |-> total_file_count,
                                 upload_errors |-> Cardinality(upload_errors)]
              ELSE /\ result' = [NoResult EXCEPT !.raised = TRUE, !.error = MsgUploadFailed]
                   /\ UNCHANGED <<manifest_obj, run_manifest_put>>
    /\ e_pc' = "returned"
    /\ UNCHANGED <<encryption_enabled, fs, objects, snapshots, runLocals, runRow, e_runs,
                   engHist, run_puts>>
    /\ UNCHANGED nonEngVars

\* The bucket after the uploads of lines 201-221 for the paths in done.
BucketAfter(done) ==
    [k \in Keys |->
        IF \E p \in done : k = S3Key(p)
        THEN LET p == CHOOSE q \in done : k = S3Key(q)
             IN  [src |-> p, ver |-> fs[p], size |-> StoredSize(p, fs[p])]
        ELSE objects[k]]

\* The process dies during a run, at any point between the scan and the worker's
\* commit of worker.py 223, and the next start sweeps the RUNNING row to FAILED
\* (worker.py 27-63). What reached the bucket before the death stays there: part of
\* the wave, perhaps a retry, perhaps the manifest.
EngineCrash ==
    /\ e_pc \in {"upload", "retry", "finish", "returned"}
    /\ \E done \in SUBSET all_files_to_backup, wrote \in BOOLEAN :
          /\ e_pc # "upload" => done = {}
          /\ e_pc \in {"upload", "returned"} => ~wrote
          /\ (e_pc = "finish" /\ upload_errors # {}) => ~wrote
          /\ objects' = IF e_pc = "retry" /\ wrote
                        THEN [objects EXCEPT ![S3Key(last_task)] =
                                 [src |-> last_task, ver |-> fs[last_task],
                                  size |-> StoredSize(last_task, fs[last_task])]]
                        ELSE BucketAfter(done)
          /\ run_puts' = IF e_pc = "retry" /\ wrote THEN run_puts \cup {S3Key(last_task)}
                         ELSE run_puts \cup {S3Key(p) : p \in done}
          /\ manifest_obj' = IF e_pc = "finish" /\ wrote
                             THEN [present |-> TRUE, encrypted |-> encryption_enabled,
                                   files |-> CurrentManifest]
                             ELSE manifest_obj
          /\ run_manifest_put' = (run_manifest_put \/ (e_pc = "finish" /\ wrote))
    /\ run_status' = "FAILED"
    /\ run_message' = MsgInterrupted
    /\ result' = NoResult
    /\ e_pc' = "idle"
    /\ previous_files' = NoFiles
    /\ all_files_to_backup' = {}
    /\ total_files_unchanged' = 0
    /\ total_file_count' = 0
    /\ last_task' = ""
    /\ uploaded_files' = [p \in Paths |-> ""]
    /\ upload_errors' = {}
    /\ failed_retryable' = {}
    /\ UNCHANGED <<encryption_enabled, fs, snapshots, e_runs, engHist>>
    /\ UNCHANGED nonEngVars

MsgPartialSuccess == "Partial success"
MsgPartiallyFailed == "Backup partially failed"

\* worker.py 137-146: the partial-success rule.
IsPartialSuccess(res) == res.upload_errors > 0
SuccessRateBelow95(res) ==
    res.total_files_scanned > 0 /\ res.files_count * 100 < 95 * res.total_files_scanned

\* The worker taking an exception of the engine for a result.
WorkerOutcomeIgnoringRaise(res) ==
    [status |-> "SUCCESS", message |-> IF IsPartialSuccess(res) THEN MsgPartialSuccess ELSE ""]

\* worker.py 146-175, 230-245 and 249-261: the status and message the worker writes.
WorkerOutcome(res) ==
    IF res.raised /\ res = Interrupted
    THEN [status |-> "CANCELLED", message |-> MsgCancelledByUser]
    ELSE IF res.raised THEN [status |-> "FAILED", message |-> res.error]
    ELSE IF IsPartialSuccess(res) /\ SuccessRateBelow95(res)
         THEN [status |-> "FAILED", message |-> MsgPartiallyFailed]
    ELSE [status |-> "SUCCESS",
          message |-> IF IsPartialSuccess(res) THEN MsgPartialSuccess ELSE ""]

\* worker.py 302-332: _apply_retention over the rows the query sees.
RetainOneLess(snaps, keep_last_n) ==
    LET kept == {i \in 1..Len(snaps) : snaps[i].retained}
        newer(i) == Cardinality({k \in kept : k > i})
    IN  [i \in 1..Len(snaps) |->
            IF snaps[i].retained /\ newer(i) >= keep_last_n - 1
            THEN [snaps[i] EXCEPT !.retained = FALSE]
            ELSE snaps[i]]

\* worker.py 302-332: _apply_retention over the retained rows, newest first.
Retain(snaps, keep_last_n) ==
    LET kept == {i \in 1..Len(snaps) : snaps[i].retained}
        newer(i) == Cardinality({k \in kept : k > i})
    IN  [i \in 1..Len(snaps) |->
            IF snaps[i].retained /\ Cardinality(kept) > keep_last_n /\ newer(i) >= keep_last_n
            THEN [snaps[i] EXCEPT !.retained = FALSE]
            ELSE snaps[i]]

ApplyRetention(snaps) == Retain(snaps, KeepLastN)

\* worker.py 136-228 and 249-268: write the run's outcome; on SUCCESS add the Snapshot
\* row and apply retention. The session does not autoflush (database.py 24), so the
\* retention query does not see the row just added.
WorkerFinalize ==
    /\ e_pc = "returned"
    /\ run_status' = WorkerOutcome(result).status
    /\ run_message' = WorkerOutcome(result).message
    /\ IF WorkerOutcome(result).status = "SUCCESS"
       THEN /\ snapshots' = Append(ApplyRetention(snapshots),
                                   [s3_key |-> IF result.s3_key # "" THEN result.s3_key
                                               ELSE "N/A",
                                    manifest_key |-> result.manifest_key,
                                    files_count |-> result.files_count,
                                    retained |-> TRUE])
            /\ changed' = {}
            /\ had_success' = TRUE
       ELSE UNCHANGED <<snapshots, changed, had_success>>
    /\ e_pc' = "idle"
    /\ previous_files' = NoFiles
    /\ all_files_to_backup' = {}
    /\ total_files_unchanged' = 0
    /\ total_file_count' = 0
    /\ last_task' = ""
    /\ uploaded_files' = [p \in Paths |-> ""]
    /\ upload_errors' = {}
    /\ failed_retryable' = {}
    /\ UNCHANGED <<encryption_enabled, fs, bucketVars, result, e_runs, run_nochange, run_puts,
                   run_manifest_put>>
    /\ UNCHANGED nonEngVars

NextEngine ==
    \/ \E p \in Paths : FsWrite(p)
    \/ EngineScan
    \/ UploadWave
    \/ RetryPass
    \/ EngineFinish
    \/ WorkerFinalize
    \/ EngineCrash

(***************************************************************************)
(* One run with permanent upload failures, by numbers of files: the end of *)
(* backup() (incremental_backup.py 395-407, 456-519) and the worker's      *)
(* partial-success rule (worker.py 136-175, 249-257).                      *)
(***************************************************************************)
PartialTotals == {1, 20, 100}
PartialUnchanged == {0, 100}

PartialIdle ==
    /\ p_pc = "done"
    /\ p_to_upload = 0
    /\ p_unchanged = 0
    /\ p_failed = 0
    /\ p_result = NoResult
    /\ p_status = "NONE"
    /\ p_message = ""

PartialInit ==
    /\ p_pc = "start"
    /\ p_to_upload \in PartialTotals
    /\ p_unchanged \in PartialUnchanged
    /\ p_failed \in 0..MaxPartialFailed
    /\ p_failed <= p_to_upload
    /\ p_result = NoResult
    /\ p_status = "RUNNING"
    /\ p_message = ""

\* incremental_backup.py 395-407 and 456-519: a permanent failure stays in
\* upload_errors (no retry pass), and line 458 raises when the list is not empty.
PartialBackup ==
    /\ p_pc = "start"
    /\ p_result' = IF p_failed > 0
                   THEN [NoResult EXCEPT !.raised = TRUE, !.error = MsgUnpack]
                   ELSE [NoResult EXCEPT !.files_count = p_to_upload - p_failed,
                                         !.s3_key = DirKey,
                                         !.manifest_key = ManifestKey,
                                         !.files_unchanged = p_unchanged,
                                         !.total_files_scanned = p_to_upload + p_unchanged,
                                         !.upload_errors = p_failed]
    /\ p_pc' = "returned"
    /\ UNCHANGED <<p_to_upload, p_unchanged, p_failed, p_status, p_message>>
    /\ UNCHANGED nonPartVars

\* worker.py 136-175 and 249-257.
PartialWorker ==
    /\ p_pc = "returned"
    /\ p_status' = WorkerOutcome(p_result).status
    /\ p_message' = WorkerOutcome(p_result).message
    /\ p_pc' = "done"
    /\ UNCHANGED <<p_to_upload, p_unchanged, p_failed, p_result>>
    /\ UNCHANGED nonPartVars

NextPartial == PartialBackup \/ PartialWorker

(***************************************************************************)
(* The scan of backup() over several source paths and the counts it        *)
(* returns (incremental_backup.py 268-308, 330-350, 509-519), every upload *)
(* succeeding.                                                             *)
(***************************************************************************)
SourcePaths == {1, 2}
ScanRelPaths == {"a", "b"}
Signatures == {1, 2}

ScanIdle ==
    /\ s_pc = "returned"
    /\ s_files = [f \in SourcePaths \X ScanRelPaths |-> 0]
    /\ s_prev = [p \in ScanRelPaths |-> 0]
    /\ s_result = NoResult

ScanInit ==
    /\ s_pc = "start"
    /\ s_files \in [SourcePaths \X ScanRelPaths -> {0} \cup Signatures]
    /\ s_prev \in [ScanRelPaths -> {0} \cup Signatures]
    /\ s_result = NoResult

\* incremental_backup.py 164-199: what scan_directory returns for one source path.
ScanFound(src) == {p \in ScanRelPaths : s_files[<<src, p>>] # 0}
ScanToBackup(src) == {p \in ScanFound(src) : s_prev[p] # s_files[<<src, p>>]}

\* incremental_backup.py 281, 284: the counts of the source paths, added up.
ScanUnchangedTotal ==
    Cardinality({f \in SourcePaths \X ScanRelPaths :
                    f[2] \in ScanFound(f[1]) \ ScanToBackup(f[1])})
ScanCountTotal ==
    Cardinality({f \in SourcePaths \X ScanRelPaths : f[2] \in ScanFound(f[1])})

\* incremental_backup.py 268-308, 330-350, 509-519: merge the scans (the dict of files
\* to back up is keyed by rel path), upload one task per key, return the counts. The
\* result of a run with nothing to upload has no total_files_scanned; its reader takes
\* files_count in its place (worker.py 139).
ScanAndReturn ==
    /\ s_pc = "start"
    /\ LET all_to_backup == UNION {ScanToBackup(src) : src \in SourcePaths}
           unchanged == ScanUnchangedTotal
           count == ScanCountTotal
       IN  s_result' = IF all_to_backup = {}
                       THEN [NoResult EXCEPT !.files_unchanged = unchanged]
                       ELSE [NoResult EXCEPT !.files_count = Cardinality(all_to_backup),
                                             !.s3_key = DirKey,
                                             !.manifest_key = ManifestKey,
                                             !.files_unchanged = unchanged,
                                             !.total_files_scanned = count]
    /\ s_pc' = "returned"
    /\ UNCHANGED <<s_files, s_prev>>
    /\ UNCHANGED nonScanVars

NextScan == ScanAndReturn

(***************************************************************************)
(* Reconcile (sync.py) over one job's bucket prefix, manifest and Snapshot *)
(* rows, together with the two writers it shares them with: the worker     *)
(* recording a snapshot (worker.py 201-223, 302-332) and the engine        *)
(* uploading its manifest (incremental_backup.py 461-500).                 *)
(*                                                                         *)
(* A key is the sequence of its pieces, the text "prefix/name/" being one  *)
(* piece, so that str.replace(s3_prefix, '') is computed on it.            *)
(***************************************************************************)
MaxSnapshots == 3
SyncKeepLastN == 1

KeyA == <<DirKey, "a">>
KeyNested == <<DirKey, DirKey, "a">>        \* the file "prefix/name/a" of the source tree
ArchiveKey == <<"prefix/name.tar.gz">>
PayloadKeys == {KeyA, KeyNested}
\* list_objects_v2 returns the keys in binary order.
ListOrder == <<KeyA, KeyNested>>
ManifestRelPaths == {<<"a">>, <<DirKey, "a">>}
ObjectSize == 100
StorageClasses == {"STANDARD", "DEEP_ARCHIVE"}

NoManifestEntry == [s3_key |-> <<>>, size |-> 0, hash |-> "null", mtime |-> "null"]
NoManifest == [exists |-> FALSE, readable |-> FALSE, storage_class |-> "",
               files |-> [r \in ManifestRelPaths |-> NoManifestEntry]]
NoSyncResult == [status |-> "", dry_run |-> FALSE, issues |-> {}, actions |-> {},
                 manifest_existed |-> FALSE, listed |-> {}]
NoOp == [name |-> "", puts |-> {}, rows |-> {}]

\* incremental_backup.py 461-480: the manifests the engine writes.
EngineEntries(r) ==
    {NoManifestEntry} \cup
    {[s3_key |-> <<DirKey>> \o r, size |-> sz, hash |-> "sha256", mtime |-> "mtime"] :
        sz \in IF r = <<"a">> THEN {ObjectSize, 2 * ObjectSize} ELSE {ObjectSize}}
EngineFiles == {f \in [ManifestRelPaths -> UNION {EngineEntries(r) : r \in ManifestRelPaths}] :
                   \A r \in ManifestRelPaths : f[r] \in EngineEntries(r)}

\* The rows a job of either kind has: worker.py 201-215 records the engine's s3_key
\* and manifest_key, the latter None for a full archive and for a run without uploads.
SnapshotRows(incremental) ==
    IF incremental
    THEN [retained : BOOLEAN, s3_key : {DirKey}, manifest_key : {ManifestKey, "None"}]
    ELSE [retained : BOOLEAN, s3_key : {ArchiveKey[1], DirKey}, manifest_key : {"None"}]

SyncIdle ==
    /\ job = [storage_class |-> "", incremental |-> FALSE, keep_last_n |-> 0]
    /\ s3_objects = {}
    /\ s3_manifest = NoManifest
    /\ job_snapshots = <<>>
    /\ sync_result = NoSyncResult
    /\ last_op = NoOp

SyncInit ==
    /\ job \in [storage_class : StorageClasses, incremental : BOOLEAN,
                 keep_last_n : {SyncKeepLastN}]
    /\ s3_objects \in SUBSET (PayloadKeys \cup {ArchiveKey})
    /\ s3_manifest \in {NoManifest} \cup
           [exists : {TRUE}, readable : BOOLEAN, storage_class : {"STANDARD"},
            files : EngineFiles]
    /\ job_snapshots \in {<<>>} \cup {<<row>> : row \in SnapshotRows(job.incremental)}
    /\ sync_result = NoSyncResult
    /\ last_op = NoOp

\* sync.py 449-464: the keys under "prefix/name/", or nothing when the listing fails.
ListS3Files == SelectSeq(ListOrder, LAMBDA k : k \in s3_objects)
Listings == {ListS3Files, <<>>}

\* str.replace(old, ''): every occurrence is removed.
StrReplace(key, old) == SelectSeq(key, LAMBDA piece : piece # old)

\* sync.py 419-447: _rebuild_manifest_from_s3 over the listing it obtained; a later
\* key of the listing overwrites the entry of an earlier one with the same rel path.
RebuildManifestFromS3(s3_files) ==
    IF s3_files = <<>> THEN NoManifest
    ELSE [exists |-> TRUE, readable |-> TRUE, storage_class |-> "",
          files |-> [r \in ManifestRelPaths |->
              LET at == {i \in 1..Len(s3_files) : StrReplace(s3_files[i], DirKey) = r}
              IN  IF at = {} THEN NoManifestEntry
                  ELSE [s3_key |-> s3_files[CHOOSE i \in at : \A k \in at : k <= i],
                        size |-> ObjectSize, hash |-> "null", mtime |-> "null"]]]

\* sync.py 390-417: _save_manifest uploads with the job's storage class.
SaveManifest(manifest_data) == [manifest_data EXCEPT !.storage_class = job.storage_class]

SavedAlsoInDryRun(dry_run, manifest_data) ==
    IF manifest_data.exists THEN {SaveManifest(manifest_data)} ELSE {}

\* sync.py 173-179, 203-209, 284-293: the manifest is saved only outside a dry run.
SavedBy(dry_run, manifest_data) ==
    IF manifest_data.exists /\ ~dry_run THEN {SaveManifest(manifest_data)} ELSE {}

LatestRetained ==
    LET kept == {i \in 1..Len(job_snapshots) : job_snapshots[i].retained}
    IN  IF kept = {} THEN 0 ELSE CHOOSE i \in kept : \A k \in kept : k <= i

\* sync.py 132-364: _sync_incremental_backup, given what its three listings returned.
SyncIncremental(dry_run, first_listing, s3_files, late_listing) ==
    LET loaded == IF s3_manifest.exists /\ s3_manifest.readable THEN s3_manifest ELSE NoManifest
        rebuilt == IF loaded.exists THEN NoManifest ELSE RebuildManifestFromS3(first_listing)
        manifest_data == IF loaded.exists THEN loaded ELSE rebuilt
        manifest_files == {r \in ManifestRelPaths : manifest_data.files[r] # NoManifestEntry}
        late == IF manifest_files = {} /\ s3_files # <<>> /\ ~dry_run /\ ~manifest_data.exists
                THEN RebuildManifestFromS3(late_listing) ELSE NoManifest
        final_data == IF late.exists THEN late ELSE manifest_data
        listed == {s3_files[i] : i \in 1..Len(s3_files)}
        files_missing == {r \in manifest_files : manifest_data.files[r].s3_key \notin s3_objects}
        files_mismatched == {r \in manifest_files \ files_missing :
                                manifest_data.files[r].size # ObjectSize}
        files_orphaned == {k \in listed :
                              \A r \in manifest_files : manifest_data.files[r].s3_key # k}
        key_differs == job_snapshots[LatestRetained].manifest_key # ManifestKey
    IN  [issues |-> (IF ~s3_manifest.exists /\ rebuilt.exists THEN {"manifest_rebuilt"} ELSE {})
                    \cup (IF ~s3_manifest.exists /\ ~rebuilt.exists THEN {"manifest_missing"} ELSE {})
                    \cup (IF s3_manifest.exists /\ ~loaded.exists THEN {"manifest_unreadable"} ELSE {})
                    \cup (IF late.exists THEN {"manifest_created"} ELSE {})
                    \cup (IF files_missing # {} THEN {"files_missing"} ELSE {})
                    \cup (IF files_orphaned # {} THEN {"files_orphaned"} ELSE {})
                    \cup (IF files_mismatched # {} THEN {"files_mismatched"} ELSE {}),
         actions |-> (IF SavedBy(dry_run, rebuilt) # {} THEN {"manifest_rebuilt"} ELSE {})
                    \cup (IF late.exists THEN {"manifest_created"} ELSE {})
                    \cup (IF files_orphaned # {} /\ ~dry_run THEN {"orphaned_files_found"} ELSE {})
                    \cup (IF key_differs /\ ~dry_run THEN {"updated_manifest_key"} ELSE {}),
         puts |-> SavedBy(dry_run, rebuilt) \cup SavedBy(dry_run, late),
         listed |-> {first_listing[i] : i \in 1..Len(first_listing)},
         row |-> IF key_differs /\ ~dry_run
                 THEN [job_snapshots[LatestRetained] EXCEPT !.manifest_key = ManifestKey]
                 ELSE job_snapshots[LatestRetained]]

\* sync.py 61-130: _sync_full_backup.
SyncFull(dry_run) ==
    LET exists == ArchiveKey \in s3_objects
        key_differs == job_snapshots[LatestRetained].s3_key # ArchiveKey[1]
    IN  [issues |-> (IF ~exists THEN {"missing_backup"} ELSE {})
                    \cup (IF key_differs THEN {"s3_key_mismatch"} ELSE {}),
         actions |-> (IF ~exists /\ ~dry_run THEN {"mark_snapshot_invalid"} ELSE {})
                    \cup (IF key_differs /\ ~dry_run THEN {"updated_s3_key"} ELSE {}),
         puts |-> {},
         listed |-> {},
         row |-> IF key_differs /\ ~dry_run
                 THEN [job_snapshots[LatestRetained] EXCEPT !.s3_key = ArchiveKey[1]]
                 ELSE job_snapshots[LatestRetained]]

\* sync.py 29-59 and api/sync.py 14-46: sync_job.
SyncJob(dry_run) ==
    /\ IF LatestRetained = 0
       THEN /\ sync_result' = [NoSyncResult EXCEPT !.status = "no_snapshots", !.dry_run = dry_run]
            /\ last_op' = [NoOp EXCEPT !.name = "sync_job"]
            /\ UNCHANGED <<s3_manifest, job_snapshots>>
       ELSE \E out \in IF job.incremental
                        THEN {SyncIncremental(dry_run, first_listing, s3_files, late_listing) :
                                 first_listing \in Listings, s3_files \in Listings,
                                 late_listing \in Listings}
                        ELSE {SyncFull(dry_run)} :
                   /\ sync_result' = [status |-> "completed", dry_run |-> dry_run,
                                      issues |-> out.issues, actions |-> out.actions,
                                      manifest_existed |-> s3_manifest.exists,
                                      listed |-> out.listed]
                   /\ s3_manifest' = IF out.puts = {} THEN s3_manifest
                                     ELSE CHOOSE m \in out.puts : TRUE
                   /\ job_snapshots' = [job_snapshots EXCEPT ![LatestRetained] = out.row]
                   /\ last_op' = [name |-> "sync_job", puts |-> out.puts,
                                  rows |-> IF out.row # job_snapshots[LatestRetained]
                                           THEN {LatestRetained} ELSE {}]
    /\ UNCHANGED <<job, s3_objects>>
    /\ UNCHANGED nonSyncVars

WorkerRecordSnapshotPruning ==
    /\ Len(job_snapshots) < MaxSnapshots
    /\ job_snapshots' = Append(Retain(job_snapshots, job.keep_last_n),
                               [retained |-> TRUE, s3_key |-> DirKey, manifest_key |-> "None"])
    /\ s3_objects' = IF Retain(job_snapshots, job.keep_last_n) # job_snapshots
                     THEN {} ELSE s3_objects
    /\ sync_result' = NoSyncResult
    /\ last_op' = [NoOp EXCEPT !.name = "record_snapshot"]
    /\ UNCHANGED <<job, s3_manifest>>
    /\ UNCHANGED nonSyncVars

\* worker.py 201-223 and 302-332: the worker adds the run's Snapshot row and applies
\* retention, which does not see the row just added (database.py 24).
WorkerRecordSnapshot ==
    /\ Len(job_snapshots) < MaxSnapshots
    /\ \E manifest_key \in IF job.incremental THEN {ManifestKey, "None"} ELSE {"None"} :
          job_snapshots' = Append(Retain(job_snapshots, job.keep_last_n),
                                  [retained |-> TRUE,
                                   s3_key |-> IF job.incremental THEN DirKey ELSE ArchiveKey[1],
                                   manifest_key |-> manifest_key])
    /\ sync_result' = NoSyncResult
    /\ last_op' = [name |-> "record_snapshot", puts |-> {},
                   rows |-> {i \in 1..Len(job_snapshots) :
                                Retain(job_snapshots, job.keep_last_n)[i] # job_snapshots[i]}
                            \cup {Len(job_snapshots) + 1}]
    /\ UNCHANGED <<job, s3_objects, s3_manifest>>
    /\ UNCHANGED nonSyncVars

\* incremental_backup.py 461-500: the engine uploads its manifest in STANDARD.
EngineManifestUpload ==
    /\ job.incremental
    /\ \E files \in EngineFiles :
          /\ \A r \in ManifestRelPaths :
                files[r] # NoManifestEntry =>
                    files[r].s3_key \in s3_objects /\ files[r].size = ObjectSize
          /\ s3_manifest' = [exists |-> TRUE, readable |-> TRUE,
                             storage_class |-> "STANDARD", files |-> files]
          /\ last_op' = [name |-> "backup", puts |-> {s3_manifest'}, rows |-> {}]
    /\ sync_result' = NoSyncResult
    /\ UNCHANGED <<job, s3_objects, job_snapshots>>
    /\ UNCHANGED nonSyncVars

NextSync ==
    \/ \E dry_run \in BOOLEAN : SyncJob(dry_run)
    \/ WorkerRecordSnapshot
    \/ EngineManifestUpload

(***************************************************************************)
(* The retry primitive (retry_utils.py): the decorator retry_with_backoff  *)
(* and RetryContext driven as its docstring shows.  Delays are in tenths   *)
(* of a second.                                                            *)
(***************************************************************************)
MaxRetries == 5
BaseDelay == 20
MaxDelay == 600
Outcomes == {"ok", "retryable", "fatal"}

NoRetry == [attempt |-> 0, calls |-> 0, slept |-> 0, delay |-> 0, delay_for |-> -1,
            last |-> "", error |-> 0, end |-> ""]

RetryIdle ==
    /\ retry_cfg = [form |-> "", max_retries |-> 0, base_delay |-> 0, max_delay |-> 0,
                    reraise_on_non_retryable |-> TRUE]
    /\ retry = [NoRetry EXCEPT !.end = "idle"]

RetryInit ==
    /\ retry_cfg \in [form : {"decorator", "context"}, max_retries : 0..MaxRetries,
                       base_delay : {BaseDelay}, max_delay : {MaxDelay \div 2, MaxDelay},
                       reraise_on_non_retryable : BOOLEAN]
    /\ retry_cfg.form = "context" => retry_cfg.reraise_on_non_retryable
    /\ retry = NoRetry

RECURSIVE Pow2(_)
Pow2(n) == IF n = 0 THEN 1 ELSE 2 * Pow2(n - 1)

\* retry_utils.py 126-148: exponential_backoff, given what random.uniform returned.
ExponentialBackoff(attempt, base, max_delay, jitter_amount) ==
    LET delay == IF base * Pow2(attempt) < max_delay THEN base * Pow2(attempt) ELSE max_delay
    IN  delay + jitter_amount

\* random.uniform(0, delay * 0.1): both ends and the middle.
Jitters(attempt, base, max_delay) ==
    LET delay == ExponentialBackoff(attempt, base, max_delay, 0)
    IN  {0, delay \div 20, delay \div 10}

ExhaustedLate(attempt, max_retries) == attempt > max_retries

\* retry_utils.py 192: the decorator's check that the retries are used up.
Exhausted(attempt, max_retries) == attempt >= max_retries

\* time.sleep(delay) after the failure of attempt i.
Sleep(st, i, jitter_amount) ==
    [st EXCEPT !.slept = @ + 1, !.delay_for = i,
               !.delay = ExponentialBackoff(i, retry_cfg.base_delay, retry_cfg.max_delay,
                                            jitter_amount)]

\* retry_utils.py 180-223: one pass of the decorator's loop, with the raise that
\* follows the loop.
DecoratorPass(st, i, outcome, jitter_amount) ==
    IF outcome = "ok" THEN [st EXCEPT !.end = "returned"]
    ELSE IF outcome = "fatal"
         THEN IF retry_cfg.reraise_on_non_retryable
              THEN [st EXCEPT !.end = "raised", !.error = st.calls]
              ELSE [st EXCEPT !.end = "returned_none"]
    ELSE IF Exhausted(i, retry_cfg.max_retries)
         THEN [st EXCEPT !.end = "raised", !.error = st.calls]
    ELSE IF i + 1 > retry_cfg.max_retries
         THEN [Sleep(st, i, jitter_amount) EXCEPT !.end = "raised", !.error = st.calls]
    ELSE Sleep(st, i, jitter_amount)

\* retry_utils.py 233-242 and 268-306: one pass of `for attempt in retry`, the body
\* raising when should_retry is false and calling wait otherwise.
ContextPass(st, i, outcome, jitter_amount) ==
    IF outcome = "ok" THEN [st EXCEPT !.end = "returned"]
    ELSE IF st.attempt > retry_cfg.max_retries \/ outcome = "fatal"
         THEN [st EXCEPT !.end = "raised", !.error = st.calls]
    ELSE Sleep(st, i, jitter_amount)

RetryAttempt(outcome) ==
    /\ retry.end = ""
    /\ retry.attempt <= retry_cfg.max_retries
    /\ LET i == retry.attempt
           called == [retry EXCEPT !.attempt = i + 1, !.calls = @ + 1, !.last = outcome]
       IN  \E jitter_amount \in Jitters(i, retry_cfg.base_delay, retry_cfg.max_delay) :
               retry' = IF retry_cfg.form = "decorator"
                        THEN DecoratorPass(called, i, outcome, jitter_amount)
                        ELSE ContextPass(called, i, outcome, jitter_amount)
    /\ UNCHANGED retry_cfg
    /\ UNCHANGED nonRetryVars

NextRetry == \E outcome \in Outcomes : RetryAttempt(outcome)

(***************************************************************************)
(* The jobs API (api/jobs.py) over the jobs table, whose name column is    *)
(* unique (database.py 48).  The handlers run on the server's thread pool. *)
(***************************************************************************)
MaxJobRows == 3
JobIds == 1..MaxJobRows
JobNames == {"alpha", "beta"}
ApiThreads == {1, 2}

NoRequest == [op |-> "", pc |-> "idle", name |-> "", existing |-> FALSE,
              status_code |-> 0, added |-> 0]

JobsIdle ==
    /\ job_rows = [i \in JobIds |-> ""]
    /\ api_req = [q \in ApiThreads |-> NoRequest]

DbCommitWithoutUnique(rows) == [ok |-> TRUE, rows |-> rows]

\* db.commit() on the jobs table: the unique index on name rejects the flush with an
\* IntegrityError and the table is left as it was.
DbCommit(rows) ==
    IF \E i, k \in JobIds : i # k /\ rows[i] # "" /\ rows[i] = rows[k]
    THEN [ok |-> FALSE, rows |-> job_rows]
    ELSE [ok |-> TRUE, rows |-> rows]

\* api/jobs.py 221-225: create_job up to its check of the name.
CreateJobCheck(q, name) ==
    /\ api_req[q].pc = "idle"
    /\ LET existing == \E i \in JobIds : job_rows[i] = name
       IN  api_req' = [api_req EXCEPT ![q] =
               [op |-> "create", pc |-> IF existing THEN "done" ELSE "adding", name |-> name,
                existing |-> existing, status_code |-> IF existing THEN 400 ELSE 0,
                added |-> 0]]
    /\ UNCHANGED job_rows
    /\ UNCHANGED nonJobsVars

\* api/jobs.py 231-256: create_job from db.add to the response.
CreateJobCommit(q) ==
    /\ api_req[q].pc = "adding"
    /\ \E id \in JobIds :
          /\ job_rows[id] = ""
          /\ \A k \in JobIds : job_rows[k] = "" => id <= k
          /\ LET res == DbCommit([job_rows EXCEPT ![id] = api_req[q].name])
             IN  /\ job_rows' = res.rows
                 /\ api_req' = [api_req EXCEPT ![q].pc = "done",
                                               ![q].status_code = IF res.ok THEN 201 ELSE 500,
                                               ![q].added = IF res.ok THEN id ELSE 0]
    /\ UNCHANGED nonJobsVars

\* api/jobs.py 283-334: update_job with a name in the request body.
UpdateJob(q, id, name) ==
    /\ api_req[q].pc = "idle"
    /\ LET res == IF job_rows[id] = "" THEN [ok |-> FALSE, rows |-> job_rows]
                  ELSE DbCommit([job_rows EXCEPT ![id] = name])
       IN  /\ job_rows' = res.rows
           /\ api_req' = [api_req EXCEPT ![q] =
                  [NoRequest EXCEPT !.op = "update", !.pc = "done", !.name = name,
                                    !.status_code = IF job_rows[id] = "" THEN 404
                                                    ELSE IF res.ok THEN 200 ELSE 500]]
    /\ UNCHANGED nonJobsVars

\* api/jobs.py 350-362: delete_job.
DeleteJob(q, id) ==
    /\ api_req[q].pc = "idle"
    /\ job_rows' = [job_rows EXCEPT ![id] = ""]
    /\ api_req' = [api_req EXCEPT ![q] =
           [NoRequest EXCEPT !.op = "delete", !.pc = "done",
                             !.status_code = IF job_rows[id] = "" THEN 404 ELSE 204]]
    /\ UNCHANGED nonJobsVars

\* The response is sent and the thread takes the next request.
Respond(q) ==
    /\ api_req[q].pc = "done"
    /\ api_req' = [api_req EXCEPT ![q] = NoRequest]
    /\ UNCHANGED job_rows
    /\ UNCHANGED nonJobsVars

NextJobs ==
    \E q \in ApiThreads :
        \/ \E name \in JobNames : CreateJobCheck(q, name)
        \/ CreateJobCommit(q)
        \/ \E id \in JobIds, name \in JobNames : UpdateJob(q, id, name)
        \/ \E id \in JobIds : DeleteJob(q, id)
        \/ Respond(q)

(***************************************************************************)
(* restore_snapshot (restore.py).  The value of a storage class is the     *)
(* sequence of its pieces, so that `"GLACIER" in value` is computed on it. *)
(***************************************************************************)
StorageClassValue ==
    [STANDARD |-> <<"STANDARD">>, GLACIER_IR |-> <<"GLACIER", "_IR">>,
     GLACIER_FLEXIBLE |-> <<"GLACIER", "_FLEXIBLE">>, DEEP_ARCHIVE |-> <<"DEEP_ARCHIVE">>]
ColdClasses == {"GLACIER_IR", "GLACIER_FLEXIBLE", "DEEP_ARCHIVE"}

MaxRestoreCalls == 3

NoRestore == [done |-> FALSE, restore_requests |-> {}, downloads |-> {}, outcome |-> ""]

RestoreIdle ==
    /\ restore_in = [storage_class |-> "", is_incremental |-> FALSE, s3_key |-> "",
                     manifest_key |-> ""]
    /\ restore_out = [NoRestore EXCEPT !.done = TRUE]
    /\ restore_status = "none"
    /\ restore_calls = MaxRestoreCalls

RestoreInit ==
    /\ restore_in \in [storage_class : DOMAIN StorageClassValue \cup {"None"},
                        is_incremental : BOOLEAN,
                        s3_key : {DirKey, "N/A", ArchiveKey[1]},
                        manifest_key : {ManifestKey, "None"}]
    /\ restore_out = NoRestore
    /\ restore_status = "none"
    /\ restore_calls = 0

\* restore.py 31: snapshot.storage_class and "GLACIER" in snapshot.storage_class.value.
InGlacier(storage_class) ==
    /\ storage_class # "None"
    /\ \E i \in 1..Len(StorageClassValue[storage_class]) :
          StorageClassValue[storage_class][i] = "GLACIER"

\* restore.py 19-57: restore_snapshot, each time it is called. A GET of an object in a
\* cold class that is not rehydrated fails; the full restore raises it (59-68), the
\* incremental one logs it per file (141-165). A restore request for an object whose
\* rehydration is in progress is refused by the store, and initiate_restore raises
\* that error (aws.py 274-276).
RestoreSnapshot ==
    /\ restore_calls < MaxRestoreCalls
    /\ restore_calls' = restore_calls + 1
    /\ restore_status' = IF InGlacier(restore_in.storage_class) /\ restore_status = "none"
                         THEN "in_progress" ELSE restore_status
    /\ restore_out' =
          IF InGlacier(restore_in.storage_class)
          THEN [done |-> TRUE, restore_requests |-> {restore_in.s3_key}, downloads |-> {},
                outcome |-> IF restore_status = "in_progress"
                            THEN "restore_already_in_progress"
                            ELSE "glacier_restore_initiated"]
          ELSE IF restore_in.is_incremental
               THEN IF restore_in.manifest_key = "None"
                    THEN [done |-> TRUE, restore_requests |-> {}, downloads |-> {},
                          outcome |-> "failed"]
                    ELSE [done |-> TRUE, restore_requests |-> {},
                          downloads |-> {restore_in.manifest_key, S3Key("a")},
                          outcome |-> "restored"]
               ELSE [done |-> TRUE, restore_requests |-> {}, downloads |-> {restore_in.s3_key},
                     outcome |-> IF restore_in.storage_class \in ColdClasses
                                    /\ restore_status # "ready"
                                 THEN "failed" ELSE "restored"]
    /\ UNCHANGED restore_in
    /\ UNCHANGED nonRestoreVars

\* The store finishes a rehydration that was requested: head_object then reports
\* ongoing-request="false", which check_restore_status reads as "ready" (aws.py 278-294).
StoreRehydrates ==
    /\ restore_status = "in_progress"
    /\ restore_status' = "ready"
    /\ UNCHANGED <<restore_in, restore_out, restore_calls>>
    /\ UNCHANGED nonRestoreVars

NextRestore == RestoreSnapshot \/ StoreRehydrates

(***************************************************************************)
(* The upload pool of one incremental run, file by file, and the run's     *)
(* cancellation flag (incremental_backup.py 352-451, worker.py 287-300).   *)
(***************************************************************************)
PoolFiles == {"a", "b", "c"}
MaxUploadThreads == 2       \* settings.backup_upload_threads
PoolMaxRetries == 1         \* settings.s3_upload_max_retries

Finished == {"ok", "retryable", "fatal"}
NoPoolRetry == [queue |-> {}, file |-> "", attempt |-> 0]

PoolIdle ==
    /\ pool_flag = FALSE
    /\ pool_pc = "off"
    /\ pool_task = [f \in PoolFiles |-> "queued"]
    /\ pool_seen = {}
    /\ pool_retry = NoPoolRetry
    /\ pool_late = {}

\* incremental_backup.py 356-368: every task has been submitted; none has started.
PoolInit ==
    /\ pool_flag = FALSE
    /\ pool_pc = "wave"
    /\ pool_task = [f \in PoolFiles |-> "queued"]
    /\ pool_seen = {}
    /\ pool_retry = NoPoolRetry
    /\ pool_late = {}

\* worker.py 287-300: cancel_backup sets the flag of the running run.
CancelBackup ==
    /\ pool_pc \in {"wave", "unwind", "retry"}
    /\ ~pool_flag
    /\ pool_flag' = TRUE
    /\ UNCHANGED <<pool_pc, pool_task, pool_seen, pool_retry, pool_late>>
    /\ UNCHANGED nonPoolVars

\* A free thread of the executor takes the next submitted task and calls
\* upload_file_to_s3 (incremental_backup.py 358-366, 201-221), which does not read
\* the flag. The executor keeps doing so while line 356's with block is being left.
PoolStart(f) ==
    /\ pool_pc \in {"wave", "unwind"}
    /\ pool_task[f] = "queued"
    /\ Cardinality({g \in PoolFiles : pool_task[g] = "running"}) < MaxUploadThreads
    /\ pool_task' = [pool_task EXCEPT ![f] = "running"]
    /\ pool_late' = IF pool_flag THEN pool_late \cup {f} ELSE pool_late
    /\ UNCHANGED <<pool_flag, pool_pc, pool_seen, pool_retry>>
    /\ UNCHANGED nonPoolVars

\* incremental_backup.py 219-224: the upload returns or raises.
PoolFinish(f, outcome) ==
    /\ pool_task[f] = "running"
    /\ pool_task' = [pool_task EXCEPT ![f] = outcome]
    /\ UNCHANGED <<pool_flag, pool_pc, pool_seen, pool_retry, pool_late>>
    /\ UNCHANGED nonPoolVars

\* incremental_backup.py 370-407: as_completed hands over a finished upload; the flag
\* is read, then the outcome is recorded. After the last one: lines 410-411.
Collect(f) ==
    /\ pool_pc = "wave"
    /\ pool_task[f] \in Finished
    /\ f \notin pool_seen
    /\ IF pool_flag
       THEN /\ pool_pc' = "unwind"
            /\ UNCHANGED <<pool_seen, pool_retry>>
       ELSE LET queue == IF pool_task[f] = "retryable" THEN pool_retry.queue \cup {f}
                         ELSE pool_retry.queue
            IN  /\ pool_seen' = pool_seen \cup {f}
                /\ pool_retry' = [pool_retry EXCEPT !.queue = queue]
                /\ pool_pc' = IF pool_seen' # PoolFiles THEN "wave"
                              ELSE IF queue # {} THEN "retry" ELSE "done"
    /\ UNCHANGED <<pool_flag, pool_task, pool_late>>
    /\ UNCHANGED nonPoolVars

\* The with block of line 356 is left on InterruptedError once every submitted
\* upload has run; the exception then reaches the worker.
Unwind ==
    /\ pool_pc = "unwind"
    /\ \A f \in PoolFiles : pool_task[f] \in Finished
    /\ pool_pc' = "cancelled"
    /\ UNCHANGED <<pool_flag, pool_task, pool_seen, pool_retry, pool_late>>
    /\ UNCHANGED nonPoolVars

\* incremental_backup.py 415-430: the next file of the retry pass: the flag is read,
\* then the first attempt starts.
RetryStart(f) ==
    /\ pool_pc = "retry"
    /\ pool_retry.file = ""
    /\ f \in pool_retry.queue
    /\ IF pool_flag
       THEN /\ pool_pc' = "cancelled"
            /\ UNCHANGED pool_retry
       ELSE /\ pool_retry' = [queue |-> pool_retry.queue \ {f}, file |-> f, attempt |-> 0]
            /\ UNCHANGED pool_pc
    /\ UNCHANGED <<pool_flag, pool_task, pool_seen, pool_late>>
    /\ UNCHANGED nonPoolVars

\* incremental_backup.py 426-448: an attempt of the retry pass ends. After a
\* retryable failure with attempts left, retry.wait sleeps and the for loop
\* starts the next attempt; the flag is not read in between.
RetryResult(outcome) ==
    /\ pool_pc = "retry"
    /\ pool_retry.file # ""
    /\ IF outcome = "retryable" /\ pool_retry.attempt < PoolMaxRetries
       THEN /\ pool_retry' = [pool_retry EXCEPT !.attempt = pool_retry.attempt + 1]
            /\ pool_late' = IF pool_flag THEN pool_late \cup {pool_retry.file} ELSE pool_late
            /\ UNCHANGED pool_pc
       ELSE /\ pool_retry' = [pool_retry EXCEPT !.file = "", !.attempt = 0]
            /\ pool_pc' = IF pool_retry.queue = {} THEN "done" ELSE "retry"
            /\ UNCHANGED pool_late
    /\ UNCHANGED <<pool_flag, pool_task, pool_seen>>
    /\ UNCHANGED nonPoolVars

NextPool ==
    \/ CancelBackup
    \/ \E f \in PoolFiles : PoolStart(f)
    \/ \E f \in PoolFiles, outcome \in Finished : PoolFinish(f, outcome)
    \/ \E f \in PoolFiles : Collect(f)
    \/ Unwind
    \/ \E f \in PoolFiles : RetryStart(f)
    \/ \E outcome \in Finished : RetryResult(outcome)

(***************************************************************************)
(* is_retryable_error (app/retry_utils.py 21-123) and what the main wave   *)
(* makes of an upload error that S3Client.upload_file_with_retry raised    *)
(* (app/aws.py 224-235, incremental_backup.py 395-407). A text is the      *)
(* sequence of its pieces, cut where a pattern can begin or end.           *)
(***************************************************************************)
RETRYABLE_ERROR_CODES ==
    {"ServiceUnavailable", "InternalError", "RequestTimeout", "Throttling", "SlowDown",
     "RequestTimeoutException", "NoSuchUpload", "InvalidUpload"}
RETRYABLE_EXCEPTIONS ==
    {"ConnectionError", "TimeoutError", "ReadTimeoutError", "ConnectTimeoutError",
     "EndpointConnectionError", "ConnectionClosedError", "socket.timeout", "OSError"}
NON_RETRYABLE_ERROR_CODES ==
    {"InvalidAccessKeyId", "SignatureDoesNotMatch", "AccessDenied", "NoSuchBucket",
     "InvalidBucketName", "InvalidParameterValue", "InvalidRequest", "MalformedXML",
     "InvalidArgument"}
OtherCodes == {"NoSuchKey", "503"}
ErrorCodes == RETRYABLE_ERROR_CODES \cup NON_RETRYABLE_ERROR_CODES \cup OtherCodes
HttpStatuses == {0, 301, 400, 403, 404, 408, 429, 500, 503}     \* 0: no status in the response

\* The pieces of an error code: a code of several words is cut between them.
CodePieces(code) ==
    CASE code = "ServiceUnavailable" -> <<"Service", "Unavailable">>
      [] code = "InternalError" -> <<"Internal", "Error">>
      [] code = "RequestTimeout" -> <<"Request", "Timeout">>
      [] code = "Throttling" -> <<"Throttl", "ing">>
      [] code = "SlowDown" -> <<"SlowDown">>
      [] code = "RequestTimeoutException" -> <<"Request", "Timeout", "Exception">>
      [] code = "NoSuchUpload" -> <<"NoSuchUpload">>
      [] code = "InvalidUpload" -> <<"InvalidUpload">>
      [] code = "" -> <<>>
      [] OTHER -> <<code>>

MsgAccessDenied == <<"Access", " ", "Denied">>
MsgReduceRate == <<"Please reduce your request ", "rate", ".">>
MsgInternalError == <<"We encountered an ", "internal", " ", "error", ". Please try again.">>
MsgServiceUnavailable == <<"Service", " ", "Unavailable">>
MsgSocketTimeout ==
    <<"Your socket ", "connection",
      " to the server was not read from or written to within the ", "timeout",
      " period.">>
MsgEndpoint == <<"Could not connect to the endpoint URL: https://s3.amazonaws.com/">>
MsgReadTimeout == <<"Read ", "timeout", " on endpoint URL: https://s3.amazonaws.com/">>
MsgReinitialize == <<"Failed to reinitialize S3 client">>
ClientMessages == {MsgAccessDenied, MsgReduceRate, MsgInternalError,
                   MsgServiceUnavailable, MsgSocketTimeout}

\* str.lower() on a piece.
Lower(piece) ==
    CASE piece = "Service" -> "service"
      [] piece = "Unavailable" -> "unavailable"
      [] piece = "Internal" -> "internal"
      [] piece = "Error" -> "error"
      [] piece = "Request" -> "request"
      [] piece = "Timeout" -> "timeout"
      [] piece = "Throttl" -> "throttl"
      [] piece = "SlowDown" -> "slowdown"
      [] piece = "Exception" -> "exception"
      [] piece = "NoSuchUpload" -> "nosuchupload"
      [] piece = "InvalidUpload" -> "invalidupload"
      [] piece = "InvalidAccessKeyId" -> "invalidaccesskeyid"
      [] piece = "SignatureDoesNotMatch" -> "signaturedoesnotmatch"
      [] piece = "AccessDenied" -> "accessdenied"
      [] piece = "NoSuchBucket" -> "nosuchbucket"
      [] piece = "InvalidBucketName" -> "invalidbucketname"
      [] piece = "InvalidParameterValue" -> "invalidparametervalue"
      [] piece = "InvalidRequest" -> "invalidrequest"
      [] piece = "MalformedXML" -> "malformedxml"
      [] piece = "InvalidArgument" -> "invalidargument"
      [] piece = "NoSuchKey" -> "nosuchkey"
      [] piece = "Access" -> "access"
      [] piece = "Denied" -> "denied"
      [] piece = "Please reduce your request " -> "please reduce your request "
      [] piece = "We encountered an " -> "we encountered an "
      [] piece = ". Please try again." -> ". please try again."
      [] piece = "Your socket " -> "your socket "
      [] piece = "Could not connect to the endpoint URL: https://s3.amazonaws.com/" -> "could not connect to the endpoint url: https://s3.amazonaws.com/"
      [] piece = "Read " -> "read "
      [] piece = " on endpoint URL: https://s3.amazonaws.com/" -> " on endpoint url: https://s3.amazonaws.com/"
      [] piece = "Failed to reinitialize S3 client" -> "failed to reinitialize s3 client"
      [] piece = "An error occurred (" -> "an error occurred ("
      [] piece = ") when calling the PutObject operation: " -> ") when calling the putobject operation: "
      [] piece = "S3 upload failed: " -> "s3 upload failed: "
      [] piece = "Unknown" -> "unknown"
      [] OTHER -> piece
LowerText(text) == [i \in 1..Len(text) |-> Lower(text[i])]

\* retry_utils.py 107-117.
retryable_patterns ==
    {<<"timeout">>, <<"connection">>, <<"network">>, <<"temporary">>, <<"retry">>,
     <<"throttl">>, <<"rate", " ", "limit">>, <<"service", " ", "unavailable">>,
     <<"internal", " ", "error">>}

NoClass == [stage |-> "off", retryable |-> FALSE, wrapped |-> <<>>, queued |-> FALSE]

\* The errors an upload attempt may raise: a botocore ClientError with its
\* Error.Code, HTTPStatusCode and Error.Message, or another exception with its text.
ClientErrors ==
    [type : {"ClientError"}, code : ErrorCodes, status : HttpStatuses, message : ClientMessages]
OtherErrors ==
    {[type |-> "EndpointConnectionError", code |-> "", status |-> 0, message |-> MsgEndpoint],
     [type |-> "ReadTimeoutError", code |-> "", status |-> 0, message |-> MsgReadTimeout],
     [type |-> "Exception", code |-> "", status |-> 0, message |-> MsgReinitialize]}

ClassIdle ==
    /\ cls_err = [type |-> "", code |-> "", status |-> 0, message |-> <<>>]
    /\ cls_out = NoClass

ClassInit ==
    /\ cls_err \in ClientErrors \cup OtherErrors
    /\ cls_out = [NoClass EXCEPT !.stage = "new"]

\* pattern in text, for texts cut into pieces.
Contains(text, pattern) ==
    \E i \in 1..Len(text) :
        /\ i + Len(pattern) - 1 <= Len(text)
        /\ SubSeq(text, i, i + Len(pattern) - 1) = pattern

\* str(error): botocore's text for a ClientError, the message of any other exception.
Str(error) ==
    IF error.type = "ClientError"
    THEN <<"An error occurred (">> \o CodePieces(error.code)
            \o <<") when calling the PutObject operation: ">> \o error.message
    ELSE error.message

\* The classifier reading the HTTP status before the list of permanent codes.
IsRetryableErrorStatusFirst(error) ==
    \/ error.type \in RETRYABLE_EXCEPTIONS
    \/ error.type = "ClientError" /\ (error.status >= 500 \/ error.status \in {408, 429})
    \/ error.type = "ClientError" /\ error.code \in RETRYABLE_ERROR_CODES

\* retry_utils.py 59-123: is_retryable_error.
IsRetryableError(error) ==
    IF error.type \in RETRYABLE_EXCEPTIONS THEN TRUE
    ELSE IF error.type = "ClientError" /\ error.code \in NON_RETRYABLE_ERROR_CODES THEN FALSE
    ELSE IF error.type = "ClientError" /\ error.code \in RETRYABLE_ERROR_CODES THEN TRUE
    ELSE IF error.type = "ClientError" /\ error.status >= 500 THEN TRUE
    ELSE IF error.type = "ClientError" /\ error.status \in {429, 408} THEN TRUE
    ELSE IF error.type = "ClientError" /\ 400 <= error.status /\ error.status < 500 THEN FALSE
    ELSE \E pattern \in retryable_patterns : Contains(LowerText(Str(error)), pattern)

\* aws.py 224-235: the exception upload_file_with_retry raises for an error
\* should_retry rejects, which it does for every error on the last attempt
\* (retry_utils.py 278-282).
Wrap(error) ==
    LET error_code == IF error.type = "ClientError" THEN CodePieces(error.code)
                      ELSE <<"Unknown">>
        error_msg == IF error.type = "ClientError" THEN error.message ELSE Str(error)
    IN  [type |-> "Exception", code |-> "", status |-> 0,
         message |-> <<"S3 upload failed: ">> \o error_code \o <<" - ">> \o error_msg]

\* is_retryable_error applied to the error.
Classify ==
    /\ cls_out.stage = "new"
    /\ cls_out' = [cls_out EXCEPT !.stage = "classified", !.retryable = IsRetryableError(cls_err)]
    /\ UNCHANGED cls_err
    /\ UNCHANGED nonClassVars

\* aws.py 146-238: every attempt of the upload fails with the error; the client's
\* attempts are used up, or the error is rejected at once, and line 235 raises.
UploadFileWithRetry ==
    /\ cls_out.stage = "classified"
    /\ cls_out' = [cls_out EXCEPT !.stage = "raised", !.wrapped = Wrap(cls_err)]
    /\ UNCHANGED cls_err
    /\ UNCHANGED nonClassVars

\* incremental_backup.py 395-407: the main wave classifies what the upload raised
\* and queues the file for the retry pass when it finds it retryable.
WaveExcept ==
    /\ cls_out.stage = "raised"
    /\ cls_out' = [cls_out EXCEPT !.stage = "recorded",
                                  !.queued = IsRetryableError(cls_out.wrapped)]
    /\ UNCHANGED cls_err
    /\ UNCHANGED nonClassVars

NextClass == Classify \/ UploadFileWithRetry \/ WaveExcept

(***************************************************************************)
(* S3Client.upload_file_with_retry and _cleanup_multipart_uploads (aws.py  *)
(* 87-105, 111-242).  The transfer itself is boto3's upload_fileobj: above *)
(* the multipart threshold it opens a multipart upload, and a transfer     *)
(* that fails leaves it "none" (aborted), "empty" (open, no part stored)   *)
(* or "parts" (open, parts stored) at the bucket.                          *)
(***************************************************************************)
MpKeys == {"k1", "k2"}
MpMaxRetries == 2
Leftovers == {"none", "empty", "parts"}

MpIdle ==
    /\ multipart_uploads = [k \in MpKeys |-> ""]
    /\ in_flight = [k \in MpKeys |-> "none"]
    /\ up_call = [key |-> "", pc |-> "off", attempt |-> 0]

\* aws.py 24: the table is created empty, and the client is created on import (358).
MpInit ==
    /\ multipart_uploads = [k \in MpKeys |-> ""]
    /\ in_flight = [k \in MpKeys |-> "none"]
    /\ up_call = [key |-> "", pc |-> "idle", attempt |-> 0]

\* aws.py 87-105: only an upload id found in the table is listed and aborted, and only
\* when it has parts; the entry is deleted whether or not the abort happened (s3ok:
\* list_parts and abort_multipart_upload answered).
CleanupMultipartUploads(table, flight, key, s3ok) ==
    IF table[key] = ""
    THEN [table |-> table, flight |-> flight]
    ELSE [table |-> [table EXCEPT ![key] = ""],
          flight |-> IF s3ok /\ flight[key] = "parts"
                     THEN [flight EXCEPT ![key] = "none"] ELSE flight]

\* aws.py 111-153: a call for one key enters the retry loop.
UploadBegin(key) ==
    /\ up_call.pc \in {"idle", "returned", "raised"}
    /\ up_call' = [key |-> key, pc |-> "loop", attempt |-> 0]
    /\ UNCHANGED <<multipart_uploads, in_flight>>
    /\ UNCHANGED nonMpVars

\* aws.py 154-242: one turn of "for attempt in retry" (retry_utils.py 271-282): the
\* transfer, and then the cleanup and return, or the handler of its exception.
UploadAttempt(outcome, left, s3ok) ==
    /\ up_call.pc = "loop"
    /\ LET key == up_call.key
           attempt == up_call.attempt + 1
           flight == IF outcome = "ok" \/ left = "none"
                     THEN in_flight ELSE [in_flight EXCEPT ![key] = left]
           should_retry == ~(attempt > MpMaxRetries) /\ outcome = "retryable"
           cleaned == CleanupMultipartUploads(multipart_uploads, flight, key, s3ok)
       IN  IF up_call.attempt > MpMaxRetries
           THEN /\ up_call' = [up_call EXCEPT !.pc = "raised"]
                /\ multipart_uploads' =
                      CleanupMultipartUploads(multipart_uploads, in_flight, key, s3ok).table
                /\ in_flight' =
                      CleanupMultipartUploads(multipart_uploads, in_flight, key, s3ok).flight
           ELSE IF outcome = "ok" \/ ~should_retry
           THEN /\ up_call' = [up_call EXCEPT !.attempt = attempt,
                                  !.pc = IF outcome = "ok" THEN "returned" ELSE "raised"]
                /\ multipart_uploads' = cleaned.table
                /\ in_flight' = cleaned.flight
           ELSE /\ up_call' = [up_call EXCEPT !.attempt = attempt]
                /\ in_flight' = flight
                /\ UNCHANGED multipart_uploads
    /\ UNCHANGED nonMpVars

NextMp ==
    \/ \E key \in MpKeys : UploadBegin(key)
    \/ \E outcome \in Finished, left \in Leftovers, s3ok \in BOOLEAN :
          UploadAttempt(outcome, left, s3ok)

(***************************************************************************)
(* JobScheduler (scheduler.py) and the job handlers that drive it          *)
(* (api/jobs.py 197-362).  A schedule string is the sequence of its parts  *)
(* (what strip() and split() leave), and a part is the sequence of its     *)
(* pieces, cut where startswith, replace and endswith look.                *)
(***************************************************************************)
SchedIds == {1}
SchDaily == << <<"daily">> >>
SchDailyCaps == << <<"Daily">> >>
SchCron == << <<"0">>, <<"*">>, <<"*">>, <<"*">>, <<"*">> >>
SchBadCron == << <<"x">>, <<"*">>, <<"*">>, <<"*">>, <<"*">> >>
SchThree == << <<"0">>, <<"*">>, <<"*">> >>
SchEvery == << <<"@every_", "5", "m">> >>
SchEveryBad == << <<"@every_", "x", "m">> >>
SchEverySec == << <<"@every_", "5", "s">> >>
SchWord == << <<"never">> >>
SchEmpty == << >>
Schedules == {SchDaily, SchDailyCaps, SchCron, SchBadCron, SchThree, SchEvery, SchEveryBad,
              SchEverySec, SchWord, SchEmpty}

\* scheduler.py 98-103.
presets ==
    [hourly |-> << <<"0">>, <<"*">>, <<"*">>, <<"*">>, <<"*">> >>,
     daily |-> << <<"0">>, <<"0">>, <<"*">>, <<"*">>, <<"*">> >>,
     weekly |-> << <<"0">>, <<"0">>, <<"*">>, <<"*">>, <<"0">> >>,
     monthly |-> << <<"0">>, <<"0">>, <<"1">>, <<"*">>, <<"*">> >>]

ScheduleLower(piece) == CASE piece = "Daily" -> "daily" [] OTHER -> piece
Numerals == {"1", "5", "30"}

NoTrigger == [kind |-> "", fields |-> << >>]
\* scheduler.py 134: CronTrigger(hour=0, minute=0), the other fields at their default.
DailyTrigger == [kind |-> "cron", fields |-> <<"0", "0", "*", "*", "*">>]

\* CronTrigger(minute, hour, day, month, day_of_week) raises ValueError for a field
\* it cannot read or whose value is below the field's minimum (1 for day and month).
CronFieldOK(i, part) ==
    /\ Len(part) = 1
    /\ part[1] \in (IF i \in {3, 4} THEN {"*", "1"} ELSE {"*", "0", "1"})

\* scheduler.py 93-134: _parse_schedule; raised is the ValueError of CronTrigger or of int().
ParseSchedule(schedule) ==
    LET parts == IF Len(schedule) = 1 /\ Len(schedule[1]) = 1
                    /\ ScheduleLower(schedule[1][1]) \in DOMAIN presets
                 THEN presets[ScheduleLower(schedule[1][1])] ELSE schedule
    IN  IF Len(parts) = 5
        THEN IF \A i \in 1..5 : CronFieldOK(i, parts[i])
             THEN [raised |-> FALSE,
                   trigger |-> [kind |-> "cron", fields |-> [i \in 1..5 |-> parts[i][1]]]]
             ELSE [raised |-> TRUE, trigger |-> NoTrigger]
        ELSE IF Len(parts) = 1 /\ parts[1] # << >> /\ parts[1][1] = "@every_"
        THEN LET interval_str == SelectSeq(parts[1], LAMBDA piece : piece # "@every_")
                 unit == IF interval_str = << >> THEN "" ELSE interval_str[Len(interval_str)]
                 number == IF interval_str = << >> THEN << >>
                           ELSE SubSeq(interval_str, 1, Len(interval_str) - 1)
             IN  IF unit \in {"m", "h", "d"}
                 THEN IF number # << >> /\ \A i \in 1..Len(number) : number[i] \in Numerals
                      THEN [raised |-> FALSE,
                            trigger |-> [kind |-> "interval", fields |-> interval_str]]
                      ELSE [raised |-> TRUE, trigger |-> NoTrigger]
                 ELSE [raised |-> FALSE, trigger |-> DailyTrigger]
        ELSE [raised |-> FALSE, trigger |-> DailyTrigger]

\* scheduler.py 82-91: remove_job; the store raises JobLookupError for an unknown id.
RemoveJob(id, mapping, store) ==
    IF id \notin mapping THEN [mapping |-> mapping, store |-> store]
    ELSE IF \E reg \in store : reg.id = id
    THEN [mapping |-> mapping \ {id}, store |-> {reg \in store : reg.id # id}]
    ELSE [mapping |-> mapping, store |-> store]

\* scheduler.py 46-73: add_job; replace_existing=True replaces a registration of the id.
AddJob(j, mapping, store) ==
    IF ~j.enabled THEN [mapping |-> mapping, store |-> store]
    ELSE LET removed == RemoveJob(j.id, mapping, store)
             parsed == ParseSchedule(j.schedule)
         IN  IF parsed.raised THEN removed
             ELSE [mapping |-> removed.mapping \cup {j.id},
                   store |-> {reg \in removed.store : reg.id # j.id}
                             \cup {[id |-> j.id, trigger |-> parsed.trigger]}]

NoJobRow == [exists |-> FALSE, enabled |-> FALSE, schedule |-> SchEmpty]
NoJobObject == [id |-> 0, enabled |-> FALSE, schedule |-> SchEmpty]
NoSchedReq == [op |-> "", pc |-> "idle", job |-> NoJobObject]

SchedIdle ==
    /\ sch_rows = [id \in SchedIds |-> NoJobRow]
    /\ job_mapping = {}
    /\ aps_jobs = {}
    /\ sch_req = [q \in ApiThreads |-> [NoSchedReq EXCEPT !.pc = "off"]]
    /\ sch_fired = {}

\* main.py 72-78 and scheduler.py 21-44: the scheduler is started over an empty table.
SchedInit ==
    /\ sch_rows = [id \in SchedIds |-> NoJobRow]
    /\ job_mapping = {}
    /\ aps_jobs = {}
    /\ sch_req = [q \in ApiThreads |-> NoSchedReq]
    /\ sch_fired = {}

\* api/jobs.py 198-256: create_job up to db.refresh(job).
SchedCreate(q, id, enabled, schedule) ==
    /\ sch_req[q].pc = "idle"
    /\ ~sch_rows[id].exists
    /\ sch_rows' = [sch_rows EXCEPT ![id] =
                       [exists |-> TRUE, enabled |-> enabled, schedule |-> schedule]]
    /\ sch_req' = [sch_req EXCEPT ![q] =
                      [op |-> "create", pc |-> "schedule",
                       job |-> [id |-> id, enabled |-> enabled, schedule |-> schedule]]]
    /\ UNCHANGED <<job_mapping, aps_jobs, sch_fired>>
    /\ UNCHANGED nonSchedVars

\* api/jobs.py 284-334: update_job up to db.refresh(job); a field absent from the
\* body keeps its value.
SchedUpdate(q, id, enabled, schedule) ==
    /\ sch_req[q].pc = "idle"
    /\ sch_rows[id].exists
    /\ sch_rows' = [sch_rows EXCEPT ![id] =
                       [exists |-> TRUE, enabled |-> enabled, schedule |-> schedule]]
    /\ sch_req' = [sch_req EXCEPT ![q] =
                      [op |-> "update", pc |-> "schedule",
                       job |-> [id |-> id, enabled |-> enabled, schedule |-> schedule]]]
    /\ UNCHANGED <<job_mapping, aps_jobs, sch_fired>>
    /\ UNCHANGED nonSchedVars

\* api/jobs.py 351-358: delete_job up to scheduler.remove_job(job_id).
SchedDelete(q, id) ==
    /\ sch_req[q].pc = "idle"
    /\ sch_rows[id].exists
    /\ job_mapping' = RemoveJob(id, job_mapping, aps_jobs).mapping
    /\ aps_jobs' = RemoveJob(id, job_mapping, aps_jobs).store
    /\ sch_req' = [sch_req EXCEPT ![q] =
                      [op |-> "delete", pc |-> "commit",
                       job |-> [id |-> id, enabled |-> sch_rows[id].enabled,
                                schedule |-> sch_rows[id].schedule]]]
    /\ UNCHANGED <<sch_rows, sch_fired>>
    /\ UNCHANGED nonSchedVars

\* api/jobs.py 268-270 (create_job), 336-337 with scheduler.py 75-80 (update_job), and
\* 360-361 (delete_job): the rest of the handler, with the Job object it loaded.
SchedFinish(q) ==
    /\ sch_req[q].pc \in {"schedule", "commit"}
    /\ LET j == sch_req[q].job
           out == IF sch_req[q].op = "delete"
                  THEN [mapping |-> job_mapping, store |-> aps_jobs]
                  ELSE IF j.enabled THEN AddJob(j, job_mapping, aps_jobs)
                  ELSE IF sch_req[q].op = "update" THEN RemoveJob(j.id, job_mapping, aps_jobs)
                  ELSE [mapping |-> job_mapping, store |-> aps_jobs]
       IN  /\ job_mapping' = out.mapping
           /\ aps_jobs' = out.store
           /\ sch_rows' = IF sch_req[q].op = "delete"
                          THEN [sch_rows EXCEPT ![j.id] = NoJobRow] ELSE sch_rows
    /\ sch_req' = [sch_req EXCEPT ![q] = NoSchedReq]
    /\ UNCHANGED sch_fired
    /\ UNCHANGED nonSchedVars

\* scheduler.py 136-150: a trigger fires and _run_backup reads the row.
SchedRunBackup(id) ==
    /\ \E reg \in aps_jobs : reg.id = id
    /\ sch_fired' = sch_fired \cup
           {[id |-> id, row |-> sch_rows[id].exists /\ sch_rows[id].enabled,
             started |-> sch_rows[id].exists /\ sch_rows[id].enabled]}
    /\ UNCHANGED <<sch_rows, job_mapping, aps_jobs, sch_req>>
    /\ UNCHANGED nonSchedVars

NextSched ==
    \/ \E q \in ApiThreads, id \in SchedIds, enabled \in BOOLEAN, schedule \in Schedules :
          SchedCreate(q, id, enabled, schedule)
    \/ \E q \in ApiThreads, id \in SchedIds, enabled \in BOOLEAN, schedule \in Schedules :
          SchedUpdate(q, id, enabled, schedule)
    \/ \E q \in ApiThreads, id \in SchedIds : SchedDelete(q, id)
    \/ \E q \in ApiThreads : SchedFinish(q)
    \/ \E id \in SchedIds : SchedRunBackup(id)

InitMp ==
    /\ LifeInit /\ EngineInit /\ encryption_enabled /\ PartialIdle /\ ScanIdle /\ SyncIdle
    /\ RetryIdle /\ JobsIdle /\ RestoreIdle /\ PoolIdle /\ ClassIdle /\ MpInit /\ SchedIdle
SpecMp == InitMp /\ [][NextMp]_vars

InitSched ==
    /\ LifeInit /\ EngineInit /\ encryption_enabled /\ PartialIdle /\ ScanIdle /\ SyncIdle
    /\ RetryIdle /\ JobsIdle /\ RestoreIdle /\ PoolIdle /\ ClassIdle /\ MpIdle /\ SchedInit
SpecSched == InitSched /\ [][NextSched]_vars

InitPool ==
    /\ LifeInit /\ EngineInit /\ encryption_enabled /\ PartialIdle /\ ScanIdle /\ SyncIdle
    /\ RetryIdle /\ JobsIdle /\ RestoreIdle /\ PoolInit /\ ClassIdle /\ MpIdle /\ SchedIdle
SpecPool == InitPool /\ [][NextPool]_vars

InitClass ==
    /\ LifeInit /\ EngineInit /\ encryption_enabled /\ PartialIdle /\ ScanIdle /\ SyncIdle
    /\ RetryIdle /\ JobsIdle /\ RestoreIdle /\ PoolIdle /\ ClassInit /\ MpIdle /\ SchedIdle
SpecClass == InitClass /\ [][NextClass]_vars

InitRestore ==
    /\ LifeInit /\ EngineInit /\ encryption_enabled /\ PartialIdle /\ ScanIdle /\ SyncIdle
    /\ RetryIdle /\ JobsIdle /\ RestoreInit /\ PoolIdle /\ ClassIdle /\ MpIdle /\ SchedIdle
SpecRestore == InitRestore /\ [][NextRestore]_vars

InitJobs ==
    /\ LifeInit /\ EngineInit /\ encryption_enabled /\ PartialIdle /\ ScanIdle /\ SyncIdle
    /\ RetryIdle /\ JobsIdle /\ RestoreIdle /\ PoolIdle /\ ClassIdle /\ MpIdle /\ SchedIdle
SpecJobs == InitJobs /\ [][NextJobs]_vars

InitRetry ==
    LifeInit /\ EngineInit /\ encryption_enabled /\ PartialIdle /\ ScanIdle /\ SyncIdle /\ RetryInit /\ JobsIdle /\ RestoreIdle /\ PoolIdle /\ ClassIdle /\ MpIdle /\ SchedIdle
SpecRetry == InitRetry /\ [][NextRetry]_vars

InitSync ==
    LifeInit /\ EngineInit /\ encryption_enabled /\ PartialIdle /\ ScanIdle /\ SyncInit /\ RetryIdle /\ JobsIdle /\ RestoreIdle /\ PoolIdle /\ ClassIdle /\ MpIdle /\ SchedIdle
SpecSync == InitSync /\ [][NextSync]_vars

InitScan ==
    LifeInit /\ EngineInit /\ encryption_enabled /\ PartialIdle /\ ScanInit /\ SyncIdle /\ RetryIdle /\ JobsIdle /\ RestoreIdle /\ PoolIdle /\ ClassIdle /\ MpIdle /\ SchedIdle
SpecScan == InitScan /\ [][NextScan]_vars

InitPartial ==
    LifeInit /\ EngineInit /\ encryption_enabled /\ PartialInit /\ ScanIdle /\ SyncIdle /\ RetryIdle /\ JobsIdle /\ RestoreIdle /\ PoolIdle /\ ClassIdle /\ MpIdle /\ SchedIdle
SpecPartial == InitPartial /\ [][NextPartial]_vars

InitEngine ==
    LifeInit /\ EngineInit /\ PartialIdle /\ ScanIdle /\ SyncIdle /\ RetryIdle /\ JobsIdle /\ RestoreIdle /\ PoolIdle /\ ClassIdle /\ MpIdle /\ SchedIdle
SpecEngine == InitEngine /\ [][NextEngine]_vars

Init ==
    LifeInit /\ EngineInit /\ encryption_enabled /\ PartialIdle /\ ScanIdle /\ SyncIdle /\ RetryIdle /\ JobsIdle /\ RestoreIdle /\ PoolIdle /\ ClassIdle /\ MpIdle /\ SchedIdle

Spec == Init /\ [][Next]_vars

\* The steps that are taken whenever they can be: the process is started again after
\* it died, a queued background task is started, and a thread inside execute_backup
\* goes on, its engine call returning in one of its three ways.
Boot == ConstructWorker \/ StartupEvent
ThreadStep(t) ==
    \/ StartManual(t)
    \/ ExecRegister(t)
    \/ ExecMarkRunning(t)
    \/ ExecPreCheck(t)
    \/ ExecSuccess(t)
    \/ ExecCancelled(t)
    \/ ExecFailed(t)
    \/ ExecFinally(t)
LiveSpec == Spec /\ WF_vars(Boot) /\ \A t \in Threads : WF_vars(ThreadStep(t))

(***************************************************************************)
(* Run lifecycle: the properties.                                          *)
(***************************************************************************)
RunningRows(j) == {r \in RunIds : status[r] = "RUNNING" /\ run_job[r] = j}

\* C1: no job ever has two BackupRun rows in status RUNNING at the same instant.
C1_AtMostOneRunning == \A j \in Jobs : Cardinality(RunningRows(j)) <= 1

AllowedMove(a, b) ==
    \/ a = b
    \/ a = "NONE" /\ b = "PENDING"
    \/ a = "PENDING" /\ b \in {"RUNNING", "CANCELLED"}
    \/ a = "RUNNING" /\ b \in Terminal

\* C2: a run's status only moves PENDING->RUNNING, PENDING->CANCELLED or
\* RUNNING->{SUCCESS, FAILED, CANCELLED}; a terminal status never changes.
C2_MonotoneStatus == [][\A r \in RunIds : AllowedMove(status[r], status'[r])]_vars

\* C3: the sweep at worker construction turns every RUNNING run into FAILED with the
\* "interrupted" message and its job's last_run_status into FAILED; the sweep at
\* process start then finds nothing to change; no run is ever swept twice.
C3_OrphanSweep ==
    /\ phase = "constructed" =>
          /\ \A r \in RunIds : status[r] # "RUNNING"
          /\ \A r \in last_sweep : last_run_status[run_job[r]] = "FAILED"
    /\ phase = "serving" => last_sweep = {}
    /\ \A r \in RunIds :
          /\ sweeps[r] <= 1
          /\ sweeps[r] = 1 => status[r] = "FAILED" /\ error_message[r] = MsgInterrupted

C3_Witness ==
    /\ phase = "serving"
    /\ \E r \in RunIds : /\ sweeps[r] = 1
                          /\ status[r] = "FAILED"
                          /\ error_message[r] = MsgInterrupted
                          /\ last_run_status[run_job[r]] = "FAILED"

\* C4: once a run's engine has seen its cancellation flag set at a polling point, the
\* run's thread is one step from writing CANCELLED or has written it, and the run's
\* status ends CANCELLED, never FAILED or SUCCESS.
C4_ObservedCancelEndsCancelled ==
    \A r \in observed :
        /\ status[r] \in {"RUNNING", "CANCELLED"}
        /\ \A t \in Threads : t_run[t] = r =>
               /\ t_pc[t] \in {"interrupted", "finally"}
               /\ t_pc[t] = "finally" => status[r] = "CANCELLED"
        /\ (\A t \in Threads : t_run[t] # r) => status[r] = "CANCELLED"

C4_Witness ==
    \E r \in observed : status[r] = "CANCELLED" /\ \A t \in Threads : t_run[t] # r

CancelAnswers == c_pc \in {"orphan", "request"} /\ c_pc' = "idle" /\ phase' = phase

\* C5: a cancel request for a run that is not the run executing in the running set
\* turns that run CANCELLED and sets the cancellation flag of no other run.
C5_CancelOfNonRunningRun ==
    [][(CancelAnswers /\ running_backups[c_job] # c_run) =>
          /\ status'[c_run] = "CANCELLED"
          /\ \A r \in RunIds \ {c_run} :
                 cancellation_flags'[r] = "true" => cancellation_flags[r] = "true"]_vars

\* C6: the cancel endpoint answers 200 exactly when the run is PENDING or RUNNING at
\* the moment it answers, and answers 400 and leaves the row alone when it is terminal.
C6_CancelStatusCodes ==
    [][CancelAnswers =>
          /\ status[c_run] \in {"PENDING", "RUNNING"} => c_resp' = 200
          /\ status[c_run] \in Terminal =>
                /\ c_resp' = 400
                /\ status'[c_run] = status[c_run]
                /\ error_message'[c_run] = error_message[c_run]]_vars

(***************************************************************************)
(* The incremental engine: the properties.                                 *)
(***************************************************************************)
\* C7: a run with failed uploads ends SUCCESS when uploaded/total >= 0.95, with a
\* message that mentions partial success and upload_errors equal to the number of
\* failures, and ends FAILED otherwise (3 of 100: SUCCESS; 10 of 100: FAILED).
C7_PartialSuccessRule ==
    (p_pc = "done" /\ p_failed > 0) =>
        IF (p_to_upload - p_failed) * 100 >= 95 * p_to_upload
        THEN /\ p_status = "SUCCESS"
             /\ p_message = MsgPartialSuccess
             /\ p_result.upload_errors = p_failed
        ELSE p_status = "FAILED"

\* C8: a run that starts on the tree its previous successful run saw returns
\* files_count = 0 and size_bytes = 0, writes no file object and no manifest.
C8_NoChangeRunIsNoOp ==
    run_nochange =>
        /\ run_puts = {}
        /\ ~run_manifest_put
        /\ e_pc \in {"returned", "idle"} =>
               result.files_count = 0 /\ result.size_bytes = 0

\* C9: a run compares the tree with the manifest of the most recent retained
\* snapshot, also right after a no-op run, and so uploads exactly the files written
\* since the last successful run, counts the others unchanged, and leaves a
\* manifest that lists every file.
C9_UploadsExactlyTheChanges ==
    /\ e_pc \in {"upload", "retry", "finish"} =>
          previous_files = (IF manifest_obj.present THEN manifest_obj.files ELSE NoFiles)
    /\ (e_pc = "returned" /\ ~result.raised) =>
          /\ result.files_count = Cardinality(changed)
          /\ result.size_bytes = SumSizes(changed)
          /\ result.files_unchanged = Cardinality(Present \ changed)
          /\ run_manifest_put =>
                {q \in Paths : manifest_obj.files[q] # NoEntry} = Present

\* C10: after a SUCCESS run that wrote the manifest, the manifest object exists and
\* each of its entries names a key holding an object of the size the entry records.
C10_ManifestMatchesBucket ==
    (e_pc = "idle" /\ run_status = "SUCCESS" /\ run_manifest_put) =>
        /\ manifest_obj.present
        /\ \A q \in Paths :
              manifest_obj.files[q] # NoEntry =>
                 /\ manifest_obj.files[q].s3_key \in Keys
                 /\ objects[manifest_obj.files[q].s3_key] # NoObject
                 /\ objects[manifest_obj.files[q].s3_key].size = manifest_obj.files[q].size

\* C11: every result an incremental run returns satisfies
\* files_unchanged + files_count = total_files_scanned.
C11_CountsAddUp ==
    s_pc = "returned" =>
        s_result.files_unchanged + s_result.files_count = s_result.total_files_scanned

(***************************************************************************)
(* Reconcile and retention: the properties.                                *)
(***************************************************************************)

\* C12: a sync_job with dry_run = true uploads no manifest and changes no field of a
\* Snapshot row, whatever the manifest, the listing and the rows are.
C12_DryRunWritesNothing ==
    (last_op.name = "sync_job" /\ sync_result.dry_run) =>
        last_op.puts = {} /\ last_op.rows = {}

\* A dry run that found the manifest missing, rebuilt it in memory from the listing and
\* saw a snapshot row whose manifest key is not the expected one.
C12_Witness ==
    /\ last_op.name = "sync_job" /\ sync_result.dry_run
    /\ sync_result.status = "completed"
    /\ "manifest_rebuilt" \in sync_result.issues
    /\ ~s3_manifest.exists
    /\ job_snapshots[LatestRetained].manifest_key # ManifestKey

\* C13: when the manifest is missing and payload objects are listed under
\* "prefix/name/", a sync_job with dry_run = false leaves a manifest at the manifest key
\* with an entry for every listed object, each with hash and mtime null, and reports
\* the issue manifest_rebuilt.
C13_RebuildCoversListing ==
    (/\ last_op.name = "sync_job" /\ ~sync_result.dry_run
     /\ sync_result.status = "completed" /\ job.incremental
     /\ ~sync_result.manifest_existed /\ sync_result.listed # {}) =>
        /\ s3_manifest.exists
        /\ "manifest_rebuilt" \in sync_result.issues
        /\ \A k \in sync_result.listed :
              \E r \in ManifestRelPaths :
                  /\ s3_manifest.files[r].s3_key = k
                  /\ s3_manifest.files[r].hash = "null"
                  /\ s3_manifest.files[r].mtime = "null"

\* C14: retention never clears the retained flag of one of the job's keep_last_n most
\* recent snapshots.
C14_RetentionKeepsRecent ==
    [][\A i \in 1..Len(job_snapshots) :
          (job_snapshots[i].retained /\ ~job_snapshots'[i].retained) =>
              Cardinality({k \in 1..Len(job_snapshots) : k > i}) >= job.keep_last_n]_vars

\* The worker recorded a snapshot and retention cleared the flag of an older row.
C14_Witness ==
    /\ last_op.name = "record_snapshot"
    /\ \E i \in last_op.rows : ~job_snapshots[i].retained

\* C19: every manifest a backup run or a rebuilding reconcile uploads to the manifest
\* key is stored in the STANDARD class, also when the job's storage class is cold.
C19_ManifestStoredHot ==
    \A m \in last_op.puts : m.storage_class = "STANDARD"

\* C20: no operation deletes an object of the bucket: recording a snapshot with retention
\* and reconcile, dry run or not, leave every object and the manifest in place.
C20_NothingDeleted ==
    [][/\ s3_objects \subseteq s3_objects'
       /\ s3_manifest.exists => s3_manifest'.exists]_vars

\* A reconcile with dry_run = false reported orphaned keys, which are still in the
\* bucket, for a job one of whose snapshot rows is no longer retained.
C20_Witness ==
    /\ last_op.name = "sync_job" /\ ~sync_result.dry_run
    /\ "orphaned_files_found" \in sync_result.actions
    /\ PayloadKeys \subseteq s3_objects
    /\ \E i \in 1..Len(job_snapshots) : ~job_snapshots[i].retained

(***************************************************************************)
(* The retry primitive: the properties.                                    *)
(***************************************************************************)

\* C15: the delay slept after the failure of attempt i lies between base * 2^i and
\* base * 2^i * 1.1, both clamped to max_delay.
C15_BackoffWithinBounds ==
    retry.delay_for >= 0 =>
        LET raw == retry_cfg.base_delay * Pow2(retry.delay_for)
            Clamp(x) == IF x < retry_cfg.max_delay THEN x ELSE retry_cfg.max_delay
        IN  /\ Clamp(raw) <= retry.delay
            /\ retry.delay <= Clamp((raw * 11) \div 10)

RetryLoopRule(reraises) ==
    /\ retry.calls <= retry_cfg.max_retries + 1
    /\ retry.last = "ok" => retry.end = "returned" /\ retry.slept = retry.calls - 1
    /\ retry.end = "returned" => retry.last = "ok"
    /\ (retry.last = "fatal" /\ reraises) =>
           /\ retry.end = "raised" /\ retry.error = retry.calls
           /\ retry.slept = retry.calls - 1
    /\ (retry.last = "retryable" /\ retry.end # "") =>
           /\ retry.end = "raised" /\ retry.error = retry.calls
           /\ retry.calls = retry_cfg.max_retries + 1
           /\ retry.slept = retry.calls - 1

C17_JobNamesUnique ==
    /\ \A i, k \in JobIds : (i # k /\ job_rows[i] # "") => job_rows[i] # job_rows[k]
    /\ \A q \in ApiThreads :
          (api_req[q].op = "create" /\ api_req[q].existing) =>
              /\ api_req[q].pc = "done"
              /\ api_req[q].status_code = 400
              /\ api_req[q].added = 0

\* Two jobs exist and a create with the name of one of them has been answered 400.
C17_Witness ==
    /\ Cardinality({i \in JobIds : job_rows[i] # ""}) = 2
    /\ \E q \in ApiThreads :
          /\ api_req[q].op = "create" /\ api_req[q].existing
          /\ api_req[q].status_code = 400
          /\ \E i \in JobIds : job_rows[i] = api_req[q].name

(***************************************************************************)
(* Restore: the properties.                                                *)
(***************************************************************************)

\* C18: restoring a snapshot whose storage class needs rehydration, the default
\* DEEP_ARCHIVE among them, issues a cold-restore request, downloads nothing and
\* surfaces the retrieval-pending result.
C18_ColdRestoreRequested ==
    (restore_out.done /\ restore_in.storage_class \in {"GLACIER_FLEXIBLE", "DEEP_ARCHIVE"}) =>
        /\ restore_out.restore_requests # {}
        /\ restore_out.downloads = {}
        /\ restore_out.outcome = "glacier_restore_initiated"

(***************************************************************************)
(* The incremental engine: encryption, upload failures, keys, the manifest *)
(* and interrupted runs.                                                   *)
(***************************************************************************)
\* C21: for a job with encryption enabled, a run whose last retained snapshot names
\* the manifest object compares the tree with that manifest: a file whose size and
\* content equal its entry there is not queued for upload.
C21_EncryptedManifestCompared ==
    (/\ encryption_enabled
     /\ e_pc \in {"upload", "retry", "finish"}
     /\ RetainedIdx # {}
     /\ manifest_obj.present) =>
        (snapshots[LastRetained].manifest_key = ManifestKey =>
            \A p \in Paths :
                (/\ manifest_obj.files[p] # NoEntry
                 /\ manifest_obj.files[p].size = FileSize(p, fs[p])
                 /\ manifest_obj.files[p].ver = fs[p]) => p \notin all_files_to_backup)

\* C22: when an upload of the main wave fails with a non-retryable error the run goes
\* on: backup() returns a result, the manifest is written with an entry for each
\* file that did upload, and the result's upload_errors counts the failed files.
C22_NonRetryableFailureContinues ==
    (e_pc = "returned" /\ result # Interrupted /\ upload_errors \ failed_retryable # {}) =>
        /\ ~result.raised
        /\ run_manifest_put
        /\ \A p \in all_files_to_backup \ upload_errors :
              /\ uploaded_files[p] # ""
              /\ manifest_obj.files[p].s3_key = uploaded_files[p]
        /\ result.upload_errors = Cardinality(upload_errors)

\* C24: every upload a run records, of the main wave or of the retry pass, went to
\* the key prefix/name/<relative path> of the file it is recorded for, and each entry
\* of the manifest the run writes carries the key of its own relative path.
C24_KeysFollowPaths ==
    /\ \A p \in Paths : uploaded_files[p] # "" => uploaded_files[p] = S3Key(p)
    /\ run_manifest_put =>
          \A p \in Paths :
              manifest_obj.files[p] # NoEntry => manifest_obj.files[p].s3_key = S3Key(p)

\* C25: the manifest a run writes is the files map the run loaded as the previous
\* manifest, overridden by a fresh entry for each file the run uploaded; every
\* other path keeps the entry it had, destination key included.
C25_ManifestIsMerge ==
    (e_pc = "returned" /\ run_manifest_put) =>
        \A p \in Paths :
            IF S3Key(p) \in run_puts
            THEN /\ manifest_obj.files[p].size = FileSize(p, fs[p])
                 /\ manifest_obj.files[p].ver = fs[p]
            ELSE manifest_obj.files[p] = previous_files[p]

\* C26: when the upload of the manifest fails, which happens only after every payload
\* upload succeeded, the worker ends the run FAILED and adds no Snapshot row.
C26_ManifestFailureFailsRun ==
    [][(e_pc = "returned" /\ result.raised /\ result.error = MsgUploadFailed /\ e_pc' = "idle")
          => (run_status' = "FAILED" /\ snapshots' = snapshots)]_vars

\* A run whose payload uploads all succeeded has ended FAILED on the manifest upload.
C26_Witness ==
    /\ e_pc = "idle"
    /\ run_status = "FAILED"
    /\ run_message = MsgUploadFailed
    /\ run_puts # {}
    /\ ~run_manifest_put

ManifestValid ==
    \A q \in Paths :
        manifest_obj.files[q] # NoEntry =>
            /\ manifest_obj.files[q].s3_key \in Keys
            /\ objects[manifest_obj.files[q].s3_key] # NoObject
            /\ objects[manifest_obj.files[q].s3_key].size = manifest_obj.files[q].size

\* C28: a run that uploads changed files and then dies, is cancelled or fails before
\* its manifest write leaves the previous manifest unchanged and still valid: no
\* step of a run that leaves the manifest object alone makes a valid manifest invalid.
C28_PreviousManifestStaysValid ==
    [][(manifest_obj.present /\ ManifestValid /\ manifest_obj' = manifest_obj)
          => ManifestValid']_vars

(***************************************************************************)
(* The upload pool and the classifier: the properties.                     *)
(***************************************************************************)
\* C29: once the cancellation flag of a run is set, no upload is started for that
\* run, in the main wave or in the retry pass.
C29_NoUploadStartsAfterCancel == pool_late = {}

\* C23: a file whose upload fails in the main wave with a retryable error, after
\* the client's own attempts, is queued for the retry pass.
C23_RetryableFailureQueued ==
    (cls_out.stage = "recorded" /\ cls_out.retryable) => cls_out.queued

\* C30: for a ClientError, is_retryable_error is false when the code is in the
\* permanent list, whatever the status and the message, and when the status is 4xx
\* other than 408 and 429 and the code is not in the retryable list; it is true when
\* the status is 5xx, 408 or 429 and the code is not in the permanent list.
C30_ClientErrorClassification ==
    (cls_out.stage # "new" /\ cls_err.type = "ClientError") =>
        /\ cls_err.code \in NON_RETRYABLE_ERROR_CODES => ~cls_out.retryable
        /\ (/\ cls_err.status \in 400..499 \ {408, 429}
            /\ cls_err.code \notin RETRYABLE_ERROR_CODES) => ~cls_out.retryable
        /\ (/\ cls_err.status >= 500 \/ cls_err.status \in {408, 429}
            /\ cls_err.code \notin NON_RETRYABLE_ERROR_CODES) => cls_out.retryable

\* A ClientError with a permanent code, a 503 status and a message that names a
\* timeout has been classified, as not retryable.
C30_Witness ==
    /\ cls_out.stage = "classified"
    /\ cls_err.type = "ClientError"
    /\ cls_err.code = "AccessDenied"
    /\ cls_err.status = 503
    /\ cls_err.message = MsgSocketTimeout
    /\ ~cls_out.retryable

\* C31: when an upload has failed and raised, no multipart upload is left open for
\* its key and the tracking table has no entry for the key.
C31_FailedUploadAborted ==
    up_call.pc = "raised" =>
        (in_flight[up_call.key] = "none" /\ multipart_uploads[up_call.key] = "")

\* C32: a reconcile with dry_run=false of a full-archive job whose archive object is
\* missing reports missing_backup and clears the retained flag of the latest
\* retained snapshot; with dry_run=true it reports the issue and changes no row.
C32_MissingArchiveClearsRetained ==
    [][(/\ ~job.incremental
        /\ LatestRetained # 0
        /\ ArchiveKey \notin s3_objects
        /\ last_op'.name = "sync_job"
        /\ sync_result'.status = "completed")
       => /\ "missing_backup" \in sync_result'.issues
          /\ sync_result'.dry_run => job_snapshots' = job_snapshots
          /\ ~sync_result'.dry_run => ~job_snapshots'[LatestRetained].retained]_vars

\* The schedules the grammar accepts: five cron fields the trigger can read, a preset
\* name, or @every_<N> followed by m, h or d.
ValidSchedule(schedule) ==
    \/ Len(schedule) = 5 /\ \A i \in 1..5 : CronFieldOK(i, schedule[i])
    \/ Len(schedule) = 1 /\ Len(schedule[1]) = 1
          /\ ScheduleLower(schedule[1][1]) \in DOMAIN presets
    \/ Len(schedule) = 1 /\ Len(schedule[1]) = 3 /\ schedule[1][1] = "@every_"
          /\ schedule[1][2] \in Numerals /\ schedule[1][3] \in {"m", "h", "d"}

\* C33: when a handler hands an enabled job whose schedule is not valid to the
\* scheduler, the job is registered with the daily 00:00 trigger afterwards, whether
\* or not it was registered before.
C33_UnparseableDefaultsToDaily ==
    [][\A q \in ApiThreads :
          (/\ sch_req[q].pc = "schedule"
           /\ sch_req'[q].pc = "idle"
           /\ sch_req[q].job.enabled
           /\ ~ValidSchedule(sch_req[q].job.schedule))
          => [id |-> sch_req[q].job.id, trigger |-> DailyTrigger] \in aps_jobs']_vars

\* C34: when no job request is in progress, the scheduler holds at most one
\* registration per job id and none for a job that is disabled or deleted; and no
\* fired trigger ever started a run for a job that was disabled or deleted.
C34_RegistrationsFollowJobs ==
    /\ (\A q \in ApiThreads : sch_req[q].pc = "idle") =>
          /\ \A reg1, reg2 \in aps_jobs : reg1.id = reg2.id => reg1 = reg2
          /\ \A reg \in aps_jobs : sch_rows[reg.id].exists /\ sch_rows[reg.id].enabled
    /\ \A fire \in sch_fired : fire.started => fire.row

\* C35: after a run of the job has ended SUCCESS, at most keep_last_n of the job's
\* snapshots are retained.
C35_RetainedWithinKeepLastN ==
    (e_pc = "idle" /\ run_status = "SUCCESS") => Cardinality(RetainedIdx) <= KeepLastN

\* C37: a job has an entry in the running set, and a run an entry in the table of
\* cancellation flags, only while a call of execute_backup that added it is still
\* executing.
C37_EntriesOnlyWhileExecuting ==
    /\ \A j \in Jobs : running_backups[j] # 0 =>
          \E t \in Threads : t_job[t] = j /\ t_pc[t] \notin {"idle", "register"}
    /\ \A r \in RunIds : cancellation_flags[r] # "absent" =>
          \E t \in Threads : t_run[t] = r /\ t_pc[t] \notin {"idle", "register"}

\* C36: every run that is PENDING reaches a terminal status.
C36_PendingRunEnds ==
    \A r \in RunIds : (status[r] = "PENDING") ~> (status[r] \in Terminal)

\* C38: a run has a Snapshot row exactly when its status is SUCCESS, and then it has
\* one: no row for a run that is PENDING, RUNNING, FAILED or CANCELLED.
C38_SnapshotIffSuccess ==
    \A r \in RunIds :
        /\ status[r] = "SUCCESS" => snapshot_rows[r] = 1
        /\ status[r] # "SUCCESS" => snapshot_rows[r] = 0

\* restore.py 95-109: _restore_incremental reads the manifest key of the snapshot it
\* is asked for, and raises when the row has none.
RestoreIncremental(target_snapshot) ==
    IF target_snapshot.manifest_key = "" THEN "no_manifest" ELSE "download"

\* C39: once a run of the job has written a manifest, a restore of the job's most
\* recent retained snapshot finds a manifest key and goes on to the downloads, also
\* when that snapshot is the row of a run that found nothing to upload.
C39_LatestSnapshotRestorable ==
    (/\ e_pc = "idle"
     /\ RetainedIdx # {}
     /\ \E i \in 1..Len(snapshots) : snapshots[i].manifest_key # "") =>
        RestoreIncremental(snapshots[LastRetained]) = "download"

\* C40: a call of restore_snapshot made when the store reports the rehydration of
\* the snapshot's object as ready issues no restore request and downloads the data.
C40_ReadyRestoreDownloads ==
    [][(restore_status = "ready" /\ restore_calls' = restore_calls + 1) =>
          (restore_out'.restore_requests = {} /\ restore_out'.downloads # {})]_vars

====
